---------------------------- MODULE Spec2Model ----------------------------
(***************************************************************************)
(* A model of the maxkl/raytracer core: the Wavefront OBJ parser           *)
(* (obj_parser.rs), the KD-tree build and traversal (mesh.rs, aabb.rs),    *)
(* the recursive shading core (renderer.rs, ray.rs, color.rs), the         *)
(* process-wide asset loader (asset_loader.rs), RgbImage (image.rs), the   *)
(* functions that only compute (Scene::trace, AABB::maximum_extent,        *)
(* Sphere::intersect, LinearKDTreeNode) and the debug counters of rays.    *)
(*                                                                         *)
(* Each subsystem has its own variables and its own specification          *)
(* (SpecObj, ...); a specification keeps the variables of the other        *)
(* subsystems at their initial values.                                     *)
(***************************************************************************)
EXTENDS Integers, Sequences, FiniteSets, TLC

(***************************************************************************)
(* Option<T>: None is the empty sequence, Some(x) the one-element sequence. *)
(***************************************************************************)
None == <<>>
Some(x) == <<x>>
IsSome(o) == o # <<>>
Unwrap(o) == o[1]

(***************************************************************************)
(* The state of the OBJ parser (obj_parser.rs, ObjParser::parse).          *)
(***************************************************************************)
VARIABLES
    object_name,        \* Option<String>: the name given by the accepted o line
    vertex_positions,   \* Vec<(f32, f32, f32)>
    vertex_normals,     \* Vec<(f32, f32, f32)>
    vertex_tex_coords,  \* Vec<(f32, f32)>
    triangles,          \* Vec<IndexedTriangle>
    line_number,        \* i + 1 of the line processed last (0: none yet)
    line,               \* the line processed last, as its whitespace-separated tokens
    parse_result,       \* Running, Ok(MeshData), Err(ObjParseError) or a panic
    overflow_checks     \* the build profile: TRUE panics on integer overflow (debug), FALSE wraps (release)

objVars == <<object_name, vertex_positions, vertex_normals, vertex_tex_coords,
             triangles, line_number, line, parse_result, overflow_checks>>

(***************************************************************************)
(* The state of one evaluation of the refraction branch of                 *)
(* Renderer::get_color (renderer.rs): its inputs and what it computed.     *)
(***************************************************************************)
VARIABLES
    fr_in,              \* [normal, incident, refractive_index, reflective_color, transmitted_color]
    fr_out              \* None before the evaluation, then Some([k_r, transmission_ray, refractive_color])

frVars == <<fr_in, fr_out>>

(***************************************************************************)
(* The state of a Renderer (renderer.rs) whose render is invoked more than *)
(* once on one scene.                                                      *)
(***************************************************************************)
VARIABLES
    scene,              \* the Scene the Renderer owns, with what its rays meet
    images,             \* the RgbImages the finished invocations returned, in order
    pc,                 \* "idle" between invocations, "loop" inside render_rect
    img,                \* render_rect's image: pixel (x, y) at index y * w + x + 1
    x_local,            \* the pixel loop's column
    y_local,            \* the pixel loop's row
    samples_done,       \* iterations of the sample loop finished for this pixel
    color_sum,          \* the sum of the pixel's samples so far
    cast                \* the last call cast_ray(world_ray, 0): None, or Some of its parts

rdVars == <<scene, images, pc, img, x_local, y_local, samples_done, color_sum, cast>>

(***************************************************************************)
(* The state of a LinearKDTree (mesh.rs): the mesh and the options it is   *)
(* built from, the working memory of build, the tree, and the locals of    *)
(* one call of intersect.                                                  *)
(***************************************************************************)
VARIABLES
    data, options, bounding_box, nodes, linear_triangle_indices,
    indices_below, indices_above, frames, \* the activations of build_node
    phase,                  \* "idle", "build", "panicked", "built", "traverse", "returned"
    intersect_stack_capacity,
    the_ray, todo_stack, nearest_hit,
    node_lookups,           \* the local `lookups` of intersect
    returned                \* what intersect returned

kdVars == <<data, options, bounding_box, nodes, linear_triangle_indices, indices_below,
            indices_above, frames, phase, intersect_stack_capacity, the_ray, todo_stack,
            nearest_hit, node_lookups, returned>>

(***************************************************************************)
(* The process-wide asset loader (asset_loader.rs): the OnceCell and the   *)
(* calls made on it so far, in the order in which they took effect.        *)
(***************************************************************************)
VARIABLES
    instance_cell,      \* the static OnceCell<Box<dyn AssetLoader>>
    call_log            \* one record per call: thread, op, loader, outcome

alVars == <<instance_cell, call_log>>

(***************************************************************************)
(* One RgbImage (image.rs) and the call made on it last.                   *)
(***************************************************************************)
VARIABLES
    rgb_image,          \* Option<RgbImage>: [width, height, data]
    rgb_before,         \* the image as it was before the last call
    rgb_call,           \* the last call: op, x, y, color and its outcome
    rgb_puts,           \* the number of put_pixel calls made on the image
    rgb_overflow_checks \* the build profile, as for the parser

imVars == <<rgb_image, rgb_before, rgb_call, rgb_puts, rgb_overflow_checks>>

(***************************************************************************)
(* One call of a function that only computes: Scene::trace,                *)
(* AABB::maximum_extent, Sphere::intersect, or the constructors and        *)
(* accessors of LinearKDTreeNode.                                          *)
(***************************************************************************)
VARIABLES
    fn_call,            \* [fn, args]: the function and its arguments
    fn_result           \* None before the call, Some of what it gave after it

fnVars == <<fn_call, fn_result>>

(***************************************************************************)
(* The rays made for one sample (ray.rs) and the RayDebugData they point   *)
(* to.  An Rc<RefCell<RayDebugData>> is an index into debug_datas.         *)
(***************************************************************************)
VARIABLES
    debug_datas,        \* the RayDebugData allocated so far: kd_tree_lookups of each
    ray_pool            \* the rays made so far: [made_by, parent, debug_data]

ryVars == <<debug_datas, ray_pool>>

vars == <<objVars, frVars, rdVars, kdVars, alVars, imVars, fnVars, ryVars>>

\* What a step of one part of the program leaves alone
notObj == <<frVars, rdVars, kdVars, alVars, imVars, fnVars, ryVars>>
notFr == <<objVars, rdVars, kdVars, alVars, imVars, fnVars, ryVars>>
notRd == <<objVars, frVars, kdVars, alVars, imVars, fnVars, ryVars>>
notKd == <<objVars, frVars, rdVars, alVars, imVars, fnVars, ryVars>>
notAl == <<objVars, frVars, rdVars, kdVars, imVars, fnVars, ryVars>>
notIm == <<objVars, frVars, rdVars, kdVars, alVars, fnVars, ryVars>>
notFn == <<objVars, frVars, rdVars, kdVars, alVars, imVars, ryVars>>
notRy == <<objVars, frVars, rdVars, kdVars, alVars, imVars, fnVars>>

(***************************************************************************)
(*                        OBJ PARSER (obj_parser.rs)                       *)
(***************************************************************************)
\* The longest file the model reads.
MaxLines == 3

(***************************************************************************)
(* A token is a sequence of one-character strings, a line the sequence of  *)
(* its tokens (what split_whitespace yields).                              *)
(***************************************************************************)
Digits == <<"0", "1", "2", "3", "4", "5", "6", "7", "8", "9">>
IsDigit(c) == \E d \in 1..10 : Digits[d] = c
DigitValue(c) == (CHOOSE d \in 1..10 : Digits[d] = c) - 1

RECURSIVE DecimalValue(_)
DecimalValue(s) ==
    IF s = <<>> THEN 0
    ELSE 10 * DecimalValue(SubSeq(s, 1, Len(s) - 1)) + DigitValue(s[Len(s)])

AllDigits(s) == s # <<>> /\ \A i \in 1..Len(s) : IsDigit(s[i])

\* str::parse::<usize>: an optional '+', then one or more digits.
ParseUsize(s) ==
    LET body == IF s # <<>> /\ s[1] = "+" THEN Tail(s) ELSE s
    IN  IF AllDigits(body) THEN Some(DecimalValue(body)) ELSE None

\* str::parse::<f32> on the decimal notation: [sign] digits [. digits], at least
\* one digit.  The value is n / 10^e.
ParseFloat(s) ==
    LET neg  == s # <<>> /\ s[1] = "-"
        body == IF s # <<>> /\ s[1] \in {"+", "-"} THEN Tail(s) ELSE s
        dots == {i \in 1..Len(body) : body[i] = "."}
        dot  == IF dots = {} THEN Len(body) + 1 ELSE CHOOSE i \in dots : TRUE
        ip   == SubSeq(body, 1, dot - 1)
        fp   == SubSeq(body, dot + 1, Len(body))
        ds   == ip \o fp
    IN  IF Cardinality(dots) <= 1 /\ AllDigits(ds)
        THEN Some([n |-> (IF neg THEN -1 ELSE 1) * DecimalValue(ds), e |-> Len(fp)])
        ELSE None

\* str::split(sep)
RECURSIVE Split(_, _)
Split(s, sep) ==
    IF \A i \in 1..Len(s) : s[i] # sep THEN <<s>>
    ELSE LET k == CHOOSE i \in 1..Len(s) :
                      s[i] = sep /\ \A j \in 1..(i - 1) : s[j] # sep
         IN  <<SubSeq(s, 1, k - 1)>> \o Split(SubSeq(s, k + 1, Len(s)), sep)

(***************************************************************************)
(* Results.  A usize that wrapped below zero is kept as its two's          *)
(* complement reading, a negative number; UsizeLt is the unsigned <.       *)
(***************************************************************************)
Running == [tag |-> "Running", err |-> "", line |-> 0, arg |-> ""]
OkMesh == [tag |-> "Ok", err |-> "", line |-> 0, arg |-> ""]
Panic == [tag |-> "Panic", err |-> "", line |-> 0, arg |-> ""]
Err(kind, ln, a) == [tag |-> "Err", err |-> kind, line |-> ln, arg |-> a]

UsizeLt(a, b) == a >= 0 /\ a < b

\* `index - 1` on usize.
Sub1Overflows(i) == i = 0
Sub1(i) == i - 1

\* map_err / ? of an Option<Result>: a part that is present and does not parse.
BadPart(parts, k) == Len(parts) >= k /\ ~IsSome(ParseUsize(parts[k]))
OptIndex(parts, k) == IF Len(parts) >= k THEN ParseUsize(parts[k]) ELSE None

parse_vertex_ref(s, ln) ==
    LET parts == Split(s, "/")
        pos   == ParseUsize(parts[1])
        tex   == OptIndex(parts, 2)
        nrm   == OptIndex(parts, 3)
        Zero(o) == IsSome(o) /\ Sub1Overflows(Unwrap(o))
        Dec(o) == IF IsSome(o) THEN Some(Sub1(Unwrap(o))) ELSE None
    IN  IF ~IsSome(pos)
        THEN [res |-> Err("InvalidVertexReference", ln, "invalid position index"), val |-> <<>>]
        ELSE IF BadPart(parts, 2)
        THEN [res |-> Err("InvalidVertexReference", ln, "invalid texture coordinate index"), val |-> <<>>]
        ELSE IF BadPart(parts, 3)
        THEN [res |-> Err("InvalidVertexReference", ln, "invalid normal index"), val |-> <<>>]
        ELSE IF Len(parts) >= 4
        THEN [res |-> Err("InvalidVertexReference", ln, "too many slashes"), val |-> <<>>]
        ELSE IF overflow_checks /\ (Zero(pos) \/ Zero(tex) \/ Zero(nrm))
        THEN [res |-> Panic, val |-> <<>>]
        ELSE [res |-> OkMesh, val |-> <<Sub1(Unwrap(pos)), Dec(tex), Dec(nrm)>>]

\* parse_multiple: map in order, stop at the first element that fails.
FirstFailure(rs) ==
    LET bad == {i \in 1..Len(rs) : rs[i].res.tag # "Ok"}
    IN  IF bad = {} THEN 0 ELSE CHOOSE i \in bad : \A j \in bad : i <= j

\* The state one line leaves behind.
Outcome(res, on, vp, vn, vt, tr) ==
    [res |-> res, object_name |-> on, vertex_positions |-> vp,
     vertex_normals |-> vn, vertex_tex_coords |-> vt, triangles |-> tr]
Keep(res) ==
    Outcome(res, object_name, vertex_positions, vertex_normals,
            vertex_tex_coords, triangles)

\* Mutant of ArmO: MultipleObjects carries the 0-based index of the line.
ArmO_zero_based(args, ln) ==
    IF Len(args) < 1 THEN Keep(Err("NotEnoughArguments", ln, "o"))
    ELSE IF Len(args) > 1 THEN Keep(Err("TooManyArguments", ln, "o"))
    ELSE IF IsSome(object_name) THEN Keep(Err("MultipleObjects", ln - 1, ""))
    ELSE Outcome(Running, Some(args[1]), vertex_positions, vertex_normals,
                 vertex_tex_coords, triangles)

ArmO(args, ln) ==
    IF Len(args) < 1 THEN Keep(Err("NotEnoughArguments", ln, "o"))
    ELSE IF Len(args) > 1 THEN Keep(Err("TooManyArguments", ln, "o"))
    ELSE IF IsSome(object_name) THEN Keep(Err("MultipleObjects", ln, ""))
    ELSE Outcome(Running, Some(args[1]), vertex_positions, vertex_normals,
                 vertex_tex_coords, triangles)

\* parse_multiple_float
FloatsOk(args) == \A i \in 1..Len(args) : IsSome(ParseFloat(args[i]))
Floats(args) == [i \in 1..Len(args) |-> Unwrap(ParseFloat(args[i]))]

ArmV(args, ln) ==
    IF ~FloatsOk(args) THEN Keep(Err("InvalidFloat", ln, ""))
    ELSE IF Len(args) < 3 THEN Keep(Err("NotEnoughArguments", ln, "v"))
    ELSE IF Len(args) > 4 THEN Keep(Err("TooManyArguments", ln, "v"))
    ELSE LET p == Floats(args)
         IN  Outcome(Running, object_name,
                     Append(vertex_positions, <<p[1], p[2], p[3]>>),
                     vertex_normals, vertex_tex_coords, triangles)

\* The normal is stored divided by its magnitude: kept as the direction and the mark.
ArmVn(args, ln) ==
    IF ~FloatsOk(args) THEN Keep(Err("InvalidFloat", ln, ""))
    ELSE IF Len(args) < 3 THEN Keep(Err("NotEnoughArguments", ln, "vn"))
    ELSE IF Len(args) > 3 THEN Keep(Err("TooManyArguments", ln, "vn"))
    ELSE LET p == Floats(args)
         IN  Outcome(Running, object_name, vertex_positions,
                     Append(vertex_normals, <<"normalized", p[1], p[2], p[3]>>),
                     vertex_tex_coords, triangles)

FloatZero == [n |-> 0, e |-> 0]

ArmVt(args, ln) ==
    IF ~FloatsOk(args) THEN Keep(Err("InvalidFloat", ln, ""))
    ELSE IF Len(args) < 1 THEN Keep(Err("NotEnoughArguments", ln, "vt"))
    ELSE IF Len(args) > 3 THEN Keep(Err("TooManyArguments", ln, "vt"))
    ELSE LET p == Floats(args)
         IN  Outcome(Running, object_name, vertex_positions, vertex_normals,
                     Append(vertex_tex_coords,
                            <<p[1], IF Len(args) >= 2 THEN p[2] ELSE FloatZero>>),
                     triangles)

\* Mutant of FanTriangle: a strip (r(i-2), r(i-1), r(i)) instead of a fan.
FanTriangle_strip(ps, i, has_tex_coords, has_normals) ==
    [position_indices |-> <<ps[i - 1][1], ps[i][1], ps[i + 1][1]>>,
     normal_indices |->
         IF has_normals
         THEN Some(<<Unwrap(ps[i - 1][3]), Unwrap(ps[i][3]), Unwrap(ps[i + 1][3])>>)
         ELSE None,
     tex_coords_indices |->
         IF has_tex_coords
         THEN Some(<<Unwrap(ps[i - 1][2]), Unwrap(ps[i][2]), Unwrap(ps[i + 1][2])>>)
         ELSE None]

\* The i-th triangle of the fan over the parsed references ps, i in 2..Len(ps)-1 (0-based).
FanTriangle(ps, i, has_tex_coords, has_normals) ==
    LET vert0 == ps[1]
        vert1 == ps[i]
        vert2 == ps[i + 1]
    IN  [position_indices |-> <<vert0[1], vert1[1], vert2[1]>>,
         normal_indices |->
             IF has_normals
             THEN Some(<<Unwrap(vert0[3]), Unwrap(vert1[3]), Unwrap(vert2[3])>>)
             ELSE None,
         tex_coords_indices |->
             IF has_tex_coords
             THEN Some(<<Unwrap(vert0[2]), Unwrap(vert1[2]), Unwrap(vert2[2])>>)
             ELSE None]

\* for i in 2..parts_parsed.len(): the triangles pushed, in order.
FanTriangles(ps, has_tex_coords, has_normals) ==
    [j \in 1..(Len(ps) - 2) |-> FanTriangle(ps, j + 1, has_tex_coords, has_normals)]

\* The uniformity loop: the first reference that differs decides the error.
FirstMixed(ps, has_tex_coords, has_normals) ==
    LET bad == {i \in 1..Len(ps) :
                   IsSome(ps[i][2]) # has_tex_coords \/ IsSome(ps[i][3]) # has_normals}
    IN  IF bad = {} THEN 0 ELSE CHOOSE i \in bad : \A j \in bad : i <= j

ArmF(args, ln) ==
    LET rs == [i \in 1..Len(args) |-> parse_vertex_ref(args[i], ln)]
        ff == FirstFailure(rs)
        ps == [i \in 1..Len(args) |-> rs[i].val]
    IN  IF ff # 0 THEN Keep(rs[ff].res)
        ELSE IF Len(ps) < 3 THEN Keep(Err("NotEnoughArguments", ln, "f"))
        ELSE LET has_tex_coords == IsSome(ps[1][2])
                 has_normals == IsSome(ps[1][3])
                 fm == FirstMixed(ps, has_tex_coords, has_normals)
             IN  IF fm # 0
                 THEN Keep(Err("InvalidVertexReference", ln,
                               IF IsSome(ps[fm][2]) # has_tex_coords
                               THEN "only some vertices have texture coordinates"
                               ELSE "only some vertices have normals"))
                 ELSE Outcome(Running, object_name, vertex_positions,
                              vertex_normals, vertex_tex_coords,
                              triangles \o FanTriangles(ps, has_tex_coords, has_normals))

IsComment(l) == l # <<>> /\ l[1] # <<>> /\ l[1][1] = "#"

\* The body of the loop over obj_str.lines() for one line.
ProcessLine(l, ln) ==
    IF IsComment(l) \/ l = <<>> THEN Keep(Running)
    ELSE LET keyword == l[1]
             args == Tail(l)
         IN  CASE keyword \in {<<"m", "t", "l", "l", "i", "b">>,
                               <<"u", "s", "e", "m", "t", "l">>, <<"s">>} -> Keep(Running)
               [] keyword = <<"o">> -> ArmO(args, ln)
               [] keyword = <<"v">> -> ArmV(args, ln)
               [] keyword = <<"v", "n">> -> ArmVn(args, ln)
               [] keyword = <<"v", "t">> -> ArmVt(args, ln)
               [] keyword = <<"f">> -> ArmF(args, ln)
               [] OTHER -> Keep(Err("InvalidKeyword", ln, "keyword"))

\* Mutant of indices_exist: an off-by-one bounds check (<= for <).
indices_exist_le(indices, len) ==
    \A k \in 1..3 : indices[k] >= 0 /\ indices[k] <= len

indices_exist(indices, len) ==
    UsizeLt(indices[1], len) /\ UsizeLt(indices[2], len) /\ UsizeLt(indices[3], len)

\* The check of one triangle after the last line: "" when all its indices exist.
TriangleFault(t) ==
    IF ~indices_exist(t.position_indices, Len(vertex_positions)) THEN "position"
    ELSE IF IsSome(t.tex_coords_indices)
            /\ ~indices_exist(Unwrap(t.tex_coords_indices), Len(vertex_tex_coords))
    THEN "texture coordinates"
    ELSE IF IsSome(t.normal_indices)
            /\ ~indices_exist(Unwrap(t.normal_indices), Len(vertex_normals))
    THEN "normal"
    ELSE ""

BoundsCheck ==
    LET bad == {i \in 1..Len(triangles) : TriangleFault(triangles[i]) # ""}
    IN  IF bad = {} THEN OkMesh
        ELSE Err("IndexOutOfBounds", 0,
                 TriangleFault(triangles[CHOOSE i \in bad : \A j \in bad : i <= j]))


(***************************************************************************)
(* The lines a file is made of.                                            *)
(***************************************************************************)
Kw(k) == CASE k = "o" -> <<"o">> [] k = "v" -> <<"v">> [] k = "vn" -> <<"v", "n">>
           [] k = "vt" -> <<"v", "t">> [] k = "f" -> <<"f">> [] k = "s" -> <<"s">>
           [] k = "g" -> <<"g">> [] k = "#" -> <<"#">>
           [] k = "usemtl" -> <<"u", "s", "e", "m", "t", "l">>

R1 == <<"1">>
R2 == <<"2">>
R3 == <<"3">>
R4 == <<"4">>
R0 == <<"0">>
Rx == <<"x">>
R1t == <<"1", "/", "1">>
R2t == <<"2", "/", "1">>
R1t0 == <<"1", "/", "0">>
R1tn == <<"1", "/", "1", "/", "1">>
R1n == <<"1", "/", "/", "1">>
R1s == <<"1", "/", "1", "/", "1", "/", "1">>
Fhalf == <<"0", ".", "5">>
Fneg == <<"-", "1">>

ObjectLines ==
    { <<Kw("o"), <<"a">>>>, <<Kw("o")>>, <<Kw("o"), <<"a">>, <<"b">>>> }
VertexLines ==
    { <<Kw("v"), R1, R0, R2>>, <<Kw("v"), R1, R0, R2, R1>>, <<Kw("v"), Fhalf, Fneg>>,
      <<Kw("v"), R1, R0, R2, R1, R1>>, <<Kw("v"), R1, Rx, R2>>,
      <<Kw("vn"), R0, Fneg, R0>>, <<Kw("vn"), R0, R1>>, <<Kw("vn"), R0, R1, R0, R1>>,
      <<Kw("vt"), Fhalf>>, <<Kw("vt"), Fhalf, R0, R0>>, <<Kw("vt")>>,
      <<Kw("vt"), R1, R0, R0, R0>> }
FaceLines ==
    { <<Kw("f"), R1, R1, R1>>, <<Kw("f"), R1, R2, R3, R4>>,
      <<Kw("f"), R1, R2>>, <<Kw("f")>>, <<Kw("f"), Rx>>, <<Kw("f"), Rx, R1, R1>>,
      <<Kw("f"), R1t, R2t, R1t>>, <<Kw("f"), R1tn, R1tn, R1tn, R1tn>>,
      <<Kw("f"), R1t, R2, R1>>, <<Kw("f"), R1tn, R1t, R1t>>,
      <<Kw("f"), R1n, R1n, R1n>>, <<Kw("f"), R1s, R1, R1>>,
      <<Kw("f"), R0, R1, R1>>, <<Kw("f"), R1t0, R1t, R1t>>, <<Kw("f"), R0, R1>> }
OtherLines ==
    { <<>>, <<Kw("#"), Kw("o"), <<"a">>>>, <<Kw("usemtl"), <<"a">>>>,
      <<Kw("g"), <<"a">>>> }
LineChoices == ObjectLines \cup VertexLines \cup FaceLines \cup OtherLines

InitObj ==
    /\ object_name = None
    /\ vertex_positions = <<>>
    /\ vertex_normals = <<>>
    /\ vertex_tex_coords = <<>>
    /\ triangles = <<>>
    /\ line_number = 0
    /\ line = <<>>
    /\ parse_result = Running
    /\ overflow_checks \in BOOLEAN

\* One iteration of `for (i, line) in obj_str.lines().enumerate()`.
ParseLine(l) ==
    /\ parse_result = Running
    /\ line_number < MaxLines
    /\ LET o == ProcessLine(l, line_number + 1)
       IN  /\ parse_result' = o.res
           /\ object_name' = o.object_name
           /\ vertex_positions' = o.vertex_positions
           /\ vertex_normals' = o.vertex_normals
           /\ vertex_tex_coords' = o.vertex_tex_coords
           /\ triangles' = o.triangles
    /\ line_number' = line_number + 1
    /\ line' = l
    /\ UNCHANGED overflow_checks
    /\ UNCHANGED notObj

\* The end of the input: the bounds check and the result.
EndOfInput ==
    /\ parse_result = Running
    /\ parse_result' = BoundsCheck
    /\ UNCHANGED <<object_name, vertex_positions, vertex_normals, vertex_tex_coords,
                   triangles, line_number, line, overflow_checks>>
    /\ UNCHANGED notObj

NextObj == (\E l \in LineChoices : ParseLine(l)) \/ EndOfInput



(***************************************************************************)
(*                       Claims about the OBJ parser                       *)
(***************************************************************************)
InRange(indices, len) == \A k \in 1..3 : 0 <= indices[k] /\ indices[k] < len

\* A triangle that references an element its array does not hold.
Dangling(t) ==
    \/ ~InRange(t.position_indices, Len(vertex_positions))
    \/ IsSome(t.tex_coords_indices)
          /\ ~InRange(Unwrap(t.tex_coords_indices), Len(vertex_tex_coords))
    \/ IsSome(t.normal_indices)
          /\ ~InRange(Unwrap(t.normal_indices), Len(vertex_normals))

SomeDangling == \E i \in 1..Len(triangles) : Dangling(triangles[i])

\* C8: whenever parse returns Ok(mesh), every position, texture-coordinate and
\* normal index of every triangle is below the length of its array, whatever the
\* order of the f, v, vt and vn lines; and the parse that reaches the end of the
\* input with a triangle referencing a missing element returns IndexOutOfBounds
\* (the final check yields IndexOutOfBounds exactly for such a mesh).
C8_IndicesInBounds ==
    /\ parse_result.tag = "Ok" => ~SomeDangling
    /\ (parse_result.tag = "Err" /\ parse_result.err = "IndexOutOfBounds") => SomeDangling
    /\ parse_result.tag \in {"Ok", "Err"} /\ parse_result.line = 0
          => (SomeDangling <=> parse_result.err = "IndexOutOfBounds")

\* Ok is returned for a file whose f line comes before the v line it refers to.
C8_Witness ==
    /\ parse_result.tag = "Ok"
    /\ triangles # <<>>
    /\ line # <<>> /\ line[1] = <<"v">>

\* The references of an f line as the OBJ grammar reads them: p[/t[/n]], 1-based.
RefParts(tok) == Split(tok, "/")
RefWellFormed(tok) ==
    /\ Len(RefParts(tok)) \in 1..3
    /\ \A k \in 1..Len(RefParts(tok)) :
          /\ IsSome(ParseUsize(RefParts(tok)[k]))
          /\ Unwrap(ParseUsize(RefParts(tok)[k])) >= 1
RefsWellFormed(refs) ==
    /\ \A i \in 1..Len(refs) : RefWellFormed(refs[i])
    /\ \A i \in 1..Len(refs) : Len(RefParts(refs[i])) = Len(RefParts(refs[1]))
RefIndex(tok, k) == Unwrap(ParseUsize(RefParts(tok)[k])) - 1
Corner(refs, a, b, c, k) == <<RefIndex(refs[a], k), RefIndex(refs[b], k), RefIndex(refs[c], k)>>

\* (r0, r(i-1), r(i)) for i = 2..k-1, in that order.
ExpectedFan(refs) ==
    [j \in 1..(Len(refs) - 2) |->
        [position_indices |-> Corner(refs, 1, j + 1, j + 2, 1),
         tex_coords_indices |->
             IF Len(RefParts(refs[1])) >= 2 THEN Some(Corner(refs, 1, j + 1, j + 2, 2)) ELSE None,
         normal_indices |->
             IF Len(RefParts(refs[1])) >= 3 THEN Some(Corner(refs, 1, j + 1, j + 2, 3)) ELSE None]]

LineRead == parse_result = Running /\ line_number' = line_number + 1

\* C9: an f line with k >= 3 (well-formed, uniformly shaped) vertex references
\* appends exactly the k-2 triangles (r0, r(i-1), r(i)), i = 2..k-1, in that
\* order, each index stored as the 1-based index minus one; an f line with fewer
\* than 3 references appends nothing and fails with NotEnoughArguments.
C9_FanTriangulation ==
    [][ (LineRead /\ line' # <<>> /\ line'[1] = <<"f">> /\ RefsWellFormed(Tail(line')))
        => IF Len(Tail(line')) >= 3
           THEN /\ parse_result' = Running
                /\ triangles' = triangles \o ExpectedFan(Tail(line'))
                /\ Len(triangles') = Len(triangles) + Len(Tail(line')) - 2
           ELSE /\ triangles' = triangles
                /\ parse_result' = Err("NotEnoughArguments", line_number', "f") ]_vars

\* A quad with four different corners has been fan-triangulated.
C9_Witness ==
    /\ line = <<<<"f">>, R1, R2, R3, R4>>
    /\ Len(triangles) >= 2
    /\ triangles[Len(triangles)].position_indices = <<0, 2, 3>>
    /\ triangles[Len(triangles) - 1].position_indices = <<0, 1, 2>>

WellFormedO(l) == Len(l) = 2 /\ l[1] = <<"o">>

\* C10: parse accepts at most one o line: the first well-formed o line is
\* accepted, and a later well-formed o line makes parse fail with
\* MultipleObjects carrying the 1-based number of that later line; no MeshData
\* is returned (the result is that error, and the accepted name never changes).
C10_SingleObject ==
    [][ /\ (LineRead /\ WellFormedO(line'))
           => IF IsSome(object_name)
              THEN /\ parse_result' = Err("MultipleObjects", line_number', "")
                   /\ object_name' = object_name
              ELSE /\ parse_result' = Running
                   /\ object_name' = Some(line'[2])
        /\ IsSome(object_name) => object_name' = object_name
        /\ parse_result.tag \in {"Err", "Panic"} => parse_result' = parse_result ]_vars

\* The second o line is the third line of the file.
C10_Witness ==
    /\ parse_result = Err("MultipleObjects", 3, "")
    /\ WellFormedO(line)

(***************************************************************************)
(*                        f32 ARITHMETIC                                   *)
(*                                                                         *)
(* An f32 is <<s, m, e>>: the value s * m * 2^e with sign s in {-1, 1} and *)
(* a 24-bit significand 2^23 <= m < 2^24; zero is <<0, 0, 0>> and NaN is   *)
(* <<0, -1, 0>>.  Every operation rounds its exact result to the nearest   *)
(* f32, ties to even, as IEEE 754 binary32 does.  The exponent of a finite *)
(* value is not bounded: the finite values of this model stay far from the *)
(* subnormal and the overflow range.  The infinities carry an exponent     *)
(* above every finite one.  There is one zero: a zero divisor is +0.0.     *)
(***************************************************************************)
F32Zero == <<0, 0, 0>>
F32NaN == <<0, -1, 0>>
F32(m, e) == <<1, m, e>>
IsNaN(a) == a = F32NaN
\* f32::INFINITY
F32Infinity == <<1, 8388608, 1000>>
F32Inf(s) == <<s, 8388608, 1000>>
IsInf(a) == a[3] = 1000

BitLength(M) == CHOOSE n \in 1..30 : 2^(n - 1) <= M /\ M < 2^n

\* A significand that rounding up carried to 2^24 is renormalised
Carry(s, m, e) == IF m = 2^24 THEN <<s, 2^23, e + 1>> ELSE <<s, m, e>>

\* M * 2^e (plus a fraction of 2^e when sticky), dropping the sh lowest bits of M
RoundAt(s, M, e, sticky, sh) ==
    IF sh <= 0 THEN <<s, M * 2^(-sh), e + sh>>
    ELSE LET q == M \div 2^sh
             r == M % 2^sh
             half == 2^(sh - 1)
         IN  Carry(s,
                   IF r > half \/ (r = half /\ (sticky \/ q % 2 = 1)) THEN q + 1 ELSE q,
                   e + sh)

\* Round M * 2^e (plus a fraction of 2^e when sticky) to 24 bits, nearest-even.
F32Round(s, M, e, sticky) == RoundAt(s, M, e, sticky, BitLength(M) - 24)

\* usize as f32, exact below 2^24
F32FromInt(n) == IF n = 0 THEN F32Zero ELSE F32Round(1, n, 0, FALSE)

F32Neg(a) == IF IsNaN(a) THEN a ELSE <<-a[1], a[2], a[3]>>
F32Abs(a) == IF IsNaN(a) THEN a ELSE <<a[1] * a[1], a[2], a[3]>>

\* |a| < |b| for non-zero a, b
MagLt(a, b) == a[3] < b[3] \/ (a[3] = b[3] /\ a[2] < b[2])

F32Lt(a, b) ==
    /\ ~IsNaN(a) /\ ~IsNaN(b)
    /\ IF a[1] # b[1] THEN a[1] < b[1]
       ELSE IF a[1] = 0 THEN FALSE
       ELSE IF a[1] > 0 THEN MagLt(a, b) ELSE MagLt(b, a)
F32Ge(a, b) == ~IsNaN(a) /\ ~IsNaN(b) /\ ~F32Lt(a, b)
F32Le(a, b) == F32Ge(b, a)
F32Gt(a, b) == F32Lt(b, a)
F32Eq(a, b) == ~IsNaN(a) /\ a = b

\* a * b: the 48-bit product of the significands from 12-bit halves.  The product is
\* (h + t \div 2^24) * 2^24 + t % 2^24.
MulSum(s, e, h, t) ==
    F32Round(s, (h + t \div 2^24) * 4 + (t % 2^24) \div 2^22, e, (t % 2^24) % 2^22 # 0)
MulMid(s, e, hh, mid, ll) == MulSum(s, e, hh + mid \div 4096, (mid % 4096) * 4096 + ll)
MulHalves(s, e, ah, al, bh, bl) == MulMid(s, e, ah * bh, ah * bl + al * bh, al * bl)
F32Mul(a, b) ==
    IF IsNaN(a) \/ IsNaN(b) THEN F32NaN
    ELSE IF a[1] = 0 \/ b[1] = 0
         THEN IF IsInf(a) \/ IsInf(b) THEN F32NaN ELSE F32Zero
    ELSE IF IsInf(a) \/ IsInf(b) THEN F32Inf(a[1] * b[1])
    ELSE MulHalves(a[1] * b[1], a[3] + b[3] + 22,
                   a[2] \div 4096, a[2] % 4096, b[2] \div 4096, b[2] % 4096)

\* a + b for non-zero a, b with |a| >= |b|: three guard bits and a sticky bit
AddAligned(s, A, e, B, sticky, same_sign) ==
    LET M == IF same_sign THEN A + B ELSE A - B - (IF sticky THEN 1 ELSE 0)
    IN  IF M = 0 THEN F32Zero ELSE F32Round(s, M, e, sticky)
AddOrdered(a, b) ==
    LET d == a[3] - b[3]
    IN  AddAligned(a[1], a[2] * 8, a[3] - 3,
                   IF d >= 27 THEN 0 ELSE (b[2] * 8) \div 2^d,
                   IF d >= 27 THEN TRUE ELSE (b[2] * 8) % 2^d # 0,
                   a[1] = b[1])

F32Add(a, b) ==
    IF IsNaN(a) \/ IsNaN(b) THEN F32NaN
    ELSE IF IsInf(a) THEN IF IsInf(b) /\ a[1] # b[1] THEN F32NaN ELSE a
    ELSE IF IsInf(b) THEN b
    ELSE IF a[1] = 0 THEN b
    ELSE IF b[1] = 0 THEN a
    ELSE AddOrdered(IF MagLt(a, b) THEN b ELSE a, IF MagLt(a, b) THEN a ELSE b)
F32Sub(a, b) == F32Add(a, F32Neg(b))

\* Long division, at most six quotient bits a step: <<quotient, remainder>>
RECURSIVE DivStep(_, _, _, _)
DivStep(q, r, mb, bits) ==
    IF bits = 0 THEN <<q, r>>
    ELSE LET c == IF bits < 6 THEN bits ELSE 6
         IN  DivStep(q * 2^c + (r * 2^c) \div mb, (r * 2^c) % mb, mb, bits - c)

F32Div(a, b) ==
    IF IsNaN(a) \/ IsNaN(b) THEN F32NaN
    ELSE IF b[1] = 0 THEN IF a[1] = 0 THEN F32NaN ELSE F32Inf(a[1])
    ELSE IF IsInf(a) THEN IF IsInf(b) THEN F32NaN ELSE F32Inf(a[1] * b[1])
    ELSE IF a[1] = 0 \/ IsInf(b) THEN F32Zero
    ELSE LET qr == DivStep(a[2] \div b[2], a[2] % b[2], b[2], 26)
         IN  F32Round(a[1] * b[1], qr[1], a[3] - b[3] - 26, qr[2] # 0)

\* Square root of m * 2^26 digit by digit in base 4: <<root, remainder>>
RECURSIVE SqrtStep(_, _, _, _)
SqrtStep(root, rem, m, i) ==
    IF i < 0 THEN <<root, rem>>
    ELSE LET digit == IF i >= 13 THEN (m \div 4^(i - 13)) % 4 ELSE 0
             r == rem * 4 + digit
             t == 4 * root + 1
         IN  IF r >= t THEN SqrtStep(2 * root + 1, r - t, m, i - 1)
             ELSE SqrtStep(2 * root, r, m, i - 1)

F32Sqrt(a) ==
    IF IsNaN(a) \/ a[1] < 0 THEN F32NaN
    ELSE IF a[1] = 0 \/ IsInf(a) THEN a
    ELSE LET odd == a[3] % 2 = 1
             m == IF odd THEN a[2] * 2 ELSE a[2]
             e == IF odd THEN a[3] - 1 ELSE a[3]
             rr == SqrtStep(0, 0, m, 25)
         IN  F32Round(1, rr[1], e \div 2 - 13, rr[2] # 0)

\* f32::min and f32::max return the other operand when one is NaN
F32Min(a, b) == IF IsNaN(a) THEN b ELSE IF IsNaN(b) THEN a ELSE IF F32Lt(b, a) THEN b ELSE a
F32Max(a, b) == IF IsNaN(a) THEN b ELSE IF IsNaN(b) THEN a ELSE IF F32Lt(a, b) THEN b ELSE a

\* `as u8`: truncation towards zero, saturating, NaN to 0
F32ToU8(a) ==
    IF IsNaN(a) \/ a[1] <= 0 THEN 0
    ELSE IF a[3] >= 0 THEN 255
    ELSE IF -a[3] > 30 THEN 0
    ELSE LET t == a[2] \div 2^(-a[3]) IN IF t > 255 THEN 255 ELSE t

F32One == F32(8388608, -23)
F32Two == F32(8388608, -22)
F32Half == F32(8388608, -24)
\* 1e-5f32 = 9.999999747378752e-06
F32Epsilon == F32(10995116, -40)
\* f32::EPSILON = 2^-23
F32_EPSILON == F32(8388608, -46)
\* n / 2^k for an integer n
F32Dyadic(n, k) ==
    IF n = 0 THEN F32Zero
    ELSE IF n < 0 THEN F32Round(-1, -n, -k, FALSE) ELSE F32Round(1, n, -k, FALSE)
\* f32::round (half away from zero) followed by `as usize`, for a finite a
F32RoundToUsize(a) ==
    IF a[1] <= 0 THEN 0
    ELSE IF a[3] >= 0 THEN a[2] * 2^a[3]
    ELSE IF -a[3] > 25 THEN 0
    ELSE (a[2] + 2^(-a[3] - 1)) \div 2^(-a[3])

(***************************************************************************)
(*                 Vector3<f32> (cgmath) and Color (color.rs)              *)
(***************************************************************************)
V3Add(a, b) == [i \in 1..3 |-> F32Add(a[i], b[i])]
V3Sub(a, b) == [i \in 1..3 |-> F32Sub(a[i], b[i])]
V3Scale(a, k) == [i \in 1..3 |-> F32Mul(a[i], k)]
V3Neg(a) == [i \in 1..3 |-> F32Neg(a[i])]
V3Dot(a, b) == F32Add(F32Add(F32Mul(a[1], b[1]), F32Mul(a[2], b[2])), F32Mul(a[3], b[3]))

Origin == <<F32Zero, F32Zero, F32Zero>>

Black == <<F32Zero, F32Zero, F32Zero>>
ColorAdd(a, b) == [i \in 1..3 |-> F32Add(a[i], b[i])]
ColorMul(a, b) == [i \in 1..3 |-> F32Mul(a[i], b[i])]
ColorScale(c, k) == [i \in 1..3 |-> F32Mul(c[i], k)]
ColorDiv(c, k) == [i \in 1..3 |-> F32Div(c[i], k)]
\* Mutant of ColorClamp: no clamping.
ColorClamp_none(c) == c
ColorClamp(c) == [i \in 1..3 |-> F32Max(F32Min(c[i], F32One), F32Zero)]
to_u8(c) == [i \in 1..3 |-> F32ToU8(F32Mul(c[i], F32FromInt(255)))]

(***************************************************************************)
(*            REFRACTION AND FRESNEL (ray.rs, renderer.rs)                 *)
(***************************************************************************)
create_reflection(normal, incident, hit_point) ==
    [origin |-> V3Add(hit_point, V3Scale(normal, F32Epsilon)),
     direction |-> V3Sub(incident,
                         V3Scale(normal, F32Mul(F32Two, V3Dot(incident, normal))))]

\* create_transmission from the test of k on: None on total internal reflection
RefractedRay(incident, hit_point, i_dot_n, ref_n, eta, k) ==
    IF F32Lt(k, F32Zero) THEN None
    ELSE Some([origin |-> V3Sub(hit_point, V3Scale(ref_n, F32Epsilon)),
               direction |->
                   V3Add(V3Scale(incident, eta),
                         V3Scale(ref_n, F32Sub(F32Mul(i_dot_n, eta), F32Sqrt(k))))])

\* create_transmission after incident.dot(normal), d: k = 1 - eta^2 (1 - i_dot_n^2)
Refracted(normal, incident, hit_point, refractive_index, d) ==
    LET entering == F32Lt(d, F32Zero)
        i_dot_n == IF entering THEN F32Neg(d) ELSE d
        ref_n == IF entering THEN normal ELSE V3Neg(normal)
        eta_t == IF entering THEN refractive_index ELSE F32One
        eta_i == IF entering THEN F32One ELSE refractive_index
        eta == F32Div(eta_i, eta_t)
    IN  RefractedRay(incident, hit_point, i_dot_n, ref_n, eta,
            F32Sub(F32One,
                   F32Mul(F32Mul(eta, eta), F32Sub(F32One, F32Mul(i_dot_n, i_dot_n)))))

create_transmission(normal, incident, hit_point, refractive_index) ==
    Refracted(normal, incident, hit_point, refractive_index, V3Dot(incident, normal))

\* calc_fresnel_reflectivity's last line
Reflectance(r_s, r_p) == F32Mul(F32Half, F32Add(F32Mul(r_s, r_s), F32Mul(r_p, r_p)))

\* calc_fresnel_reflectivity's else branch after cos_theta_t
FresnelTerm(eta_t, eta_i, i_dot_n, cos_theta_t) ==
    Reflectance(
        F32Div(F32Sub(F32Mul(eta_t, i_dot_n), F32Mul(eta_i, cos_theta_t)),
               F32Add(F32Mul(eta_t, i_dot_n), F32Mul(eta_i, cos_theta_t))),
        F32Div(F32Sub(F32Mul(eta_i, i_dot_n), F32Mul(eta_t, cos_theta_t)),
               F32Add(F32Mul(eta_i, i_dot_n), F32Mul(eta_t, cos_theta_t))))

\* calc_fresnel_reflectivity from the test of sin_theta_t on
FresnelAt(eta_t, eta_i, i_dot_n, sin_theta_t) ==
    IF F32Ge(sin_theta_t, F32One) THEN F32One
    ELSE FresnelTerm(eta_t, eta_i, i_dot_n,
                     F32Sqrt(F32Sub(F32One, F32Mul(sin_theta_t, sin_theta_t))))

\* calc_fresnel_reflectivity after incident.dot(normal), d:
\* sin_theta_t = eta_i / eta_t * sqrt(1 - i_dot_n^2)
Fresnel(refractive_index, d) ==
    LET entering == F32Lt(d, F32Zero)
        i_dot_n == IF entering THEN F32Neg(d) ELSE d
        eta_t == IF entering THEN refractive_index ELSE F32One
        eta_i == IF entering THEN F32One ELSE refractive_index
    IN  FresnelAt(eta_t, eta_i, i_dot_n,
                  F32Mul(F32Div(eta_i, eta_t),
                         F32Sqrt(F32Sub(F32One, F32Mul(i_dot_n, i_dot_n)))))

calc_fresnel_reflectivity(normal, incident, refractive_index) ==
    Fresnel(refractive_index, V3Dot(incident, normal))

\* get_color, the refractive branch: k_r * reflective_color + (1 - k_r) * refractive_color,
\* where refractive_color is the colour the refracted ray brings, black without such a ray.
RefractiveBranch(k_r, transmission_ray, reflective_color, refractive_color) ==
    [k_r |-> k_r,
     transmission_ray |-> transmission_ray,
     refractive_color |->
         ColorAdd(ColorScale(reflective_color, k_r),
                  ColorScale(refractive_color, F32Sub(F32One, k_r)))]

\* Surface normals, incident directions and refractive indices of the refraction branch.
\* 0.6 and 0.8; 0.28 and 0.96; the pair 0.656469464302063, 0.7543525695800781 lies
\* at the critical angle of the index 1.523300051689148.
Normals == {<<F32Zero, F32Zero, F32One>>, <<F32Zero, F32Zero, F32Neg(F32One)>>}
Incidents ==
    {<<F32(10066330, -24), F32Zero, F32(13421773, -24)>>,
     <<F32(13421773, -24), F32Zero, F32(10066330, -24)>>,
     <<F32(16106127, -24), F32Zero, F32(9395241, -25)>>,
     <<F32(11013730, -24), F32Zero, F32(12655936, -24)>>,
     <<F32Zero, F32Zero, F32One>>}
RefractiveIndices ==
    {F32One, F32(12582912, -23), F32(12778367, -23), F32Two, F32(12582912, -24)}
\* (0.2, 0.3, 0.4), (1.0, 0.5, 0.0), (0.9, 0.1, 0.7)
SampleColors ==
    {<<F32(13421773, -26), F32(10066330, -25), F32(13421773, -25)>>,
     <<F32One, F32Half, F32Zero>>,
     <<F32(15099494, -24), F32(13421773, -27), F32(11744051, -24)>>}

InitFr ==
    /\ fr_in \in [normal : Normals, incident : Incidents,
                  refractive_index : RefractiveIndices,
                  reflective_color : SampleColors, transmitted_color : SampleColors]
    /\ fr_out = None

\* The colour the refracted ray brings: what cast_ray returns for it, black without it
Transmitted(transmission_ray, transmitted_color) ==
    IF IsSome(transmission_ray) THEN transmitted_color ELSE Black

Refract ==
    /\ fr_out = None
    /\ fr_out' =
           Some(RefractiveBranch(
                    calc_fresnel_reflectivity(fr_in.normal, fr_in.incident,
                                              fr_in.refractive_index),
                    create_transmission(fr_in.normal, fr_in.incident, Origin,
                                        fr_in.refractive_index),
                    fr_in.reflective_color,
                    Transmitted(create_transmission(fr_in.normal, fr_in.incident, Origin,
                                                    fr_in.refractive_index),
                                fr_in.transmitted_color)))
    /\ UNCHANGED fr_in
    /\ UNCHANGED notFr

NextFr == Refract

(***************************************************************************)
(*                     Claims about refraction                             *)
(***************************************************************************)
\* C7: whenever create_transmission returns None (total internal reflection),
\* calc_fresnel_reflectivity returns 1.0 for the same normal, incident direction
\* and refractive index, and the refractive contribution of get_color equals the
\* reflective colour exactly.
C7_TotalInternalReflection ==
    IsSome(fr_out) /\ ~IsSome(Unwrap(fr_out).transmission_ray)
        => /\ Unwrap(fr_out).k_r = F32One
           /\ Unwrap(fr_out).refractive_color = fr_in.reflective_color

(***************************************************************************)
(*                      RENDERER (renderer.rs, scene.rs)                   *)
(*                                                                         *)
(* The geometry of a scene is given by what its rays meet.  A ray is       *)
(* [direction, sees, kd_tree_lookups]: sees lists, in the order of         *)
(* scene.objects, the objects whose Object::intersect returns a hit for    *)
(* the ray, each with the hit's distance and the surface point it lies on; *)
(* kd_tree_lookups is what the meshes built with debug add to the ray's    *)
(* counter while it is traced.  A surface point holds the hit's normal and *)
(* point, what the reflected and the refracted ray leaving it meet and,    *)
(* for every light, the direction to the light, the light's distance and   *)
(* intensity there and what the shadow ray meets.  The image plane has one *)
(* silhouette edge: the camera rays of samples left of scene.edge are      *)
(* scene.left, the others scene.right.                                     *)
(***************************************************************************)
\* f32::consts::PI
F32Pi == F32(13176795, -22)

\* Mutant of MinBy: among equals the last one is kept.
RECURSIVE MinBy_last(_, _, _)
MinBy_last(sees, i, best) ==
    IF i > Len(sees) THEN best
    ELSE MinBy_last(sees, i + 1,
                    IF F32Le(sees[i].distance, best.distance) THEN sees[i] ELSE best)
\* Scene::trace: the hit of least distance, the first one among equals (min_by)
RECURSIVE MinBy(_, _, _)
MinBy(sees, i, best) ==
    IF i > Len(sees) THEN best
    ELSE MinBy(sees, i + 1,
               IF F32Lt(sees[i].distance, best.distance) THEN sees[i] ELSE best)
trace(ray) == IF ray.sees = <<>> THEN None ELSE Some(MinBy(ray.sees, 2, ray.sees[1]))

\* Mutant of ShadeLights: whatever the shadow ray hits hides the light.
RECURSIVE ShadeLights_any_hit(_, _, _, _, _)
ShadeLights_any_hit(sc, material, hit, i, color) ==
    IF i > Len(sc.lights) THEN color
    ELSE LET at == hit.lights[i]
             light_power == F32Mul(F32Max(V3Dot(hit.normal, at.to_light), F32Zero),
                                   at.intensity_at)
         IN  ShadeLights_any_hit(sc, material, hit, i + 1,
                 IF ~IsSome(trace(at.shadow))
                 THEN ColorAdd(color,
                          ColorScale(ColorScale(ColorMul(material.color, sc.lights[i].color),
                                                light_power),
                                     F32Div(material.albedo, F32Pi)))
                 ELSE color)
\* shade_diffuse's loop over the lights, from light i on
RECURSIVE ShadeLights(_, _, _, _, _)
ShadeLights(sc, material, hit, i, color) ==
    IF i > Len(sc.lights) THEN color
    ELSE LET at == hit.lights[i]
             shadow_hit == trace(at.shadow)
             in_light == IF ~IsSome(shadow_hit) THEN TRUE
                         ELSE IF ~IsSome(at.distance_at) THEN FALSE
                         ELSE F32Lt(Unwrap(at.distance_at), Unwrap(shadow_hit).distance)
             light_power == F32Mul(F32Max(V3Dot(hit.normal, at.to_light), F32Zero),
                                   at.intensity_at)
             reflection_factor == F32Div(material.albedo, F32Pi)
         IN  ShadeLights(sc, material, hit, i + 1,
                 IF in_light
                 THEN ColorAdd(color,
                          ColorScale(ColorScale(ColorMul(material.color, sc.lights[i].color),
                                                light_power),
                                     reflection_factor))
                 ELSE color)

shade_diffuse(sc, material, hit) ==
    ColorClamp(ShadeLights(sc, material, hit, 1,
                           ColorMul(material.color, sc.ambient_light_color)))

\* The ray leaving a surface point in a direction, with what the scene says it meets
Leaving(optics, direction) ==
    [direction |-> direction, sees |-> optics.sees,
     kd_tree_lookups |-> optics.kd_tree_lookups]

\* get_color's last line
Blend(material, diffuse_color, reflective_color, refractive_color) ==
    ColorClamp(
        ColorAdd(
            ColorAdd(
                ColorScale(diffuse_color,
                           F32Sub(F32Sub(F32One, material.reflectivity),
                                  material.transparency)),
                ColorScale(reflective_color, material.reflectivity)),
            ColorScale(refractive_color, material.transparency)))

\* Mutant of TooDeep: the recursion is cut one level later.
TooDeep_late(sc, depth) == depth > sc.max_recursion_depth + 1
\* depth > self.scene.max_recursion_depth
TooDeep(sc, depth) == depth > sc.max_recursion_depth

RECURSIVE cast_ray(_, _, _)

\* get_color's refractive_color, after reflective_color and the transmission ray
Refraction(sc, ray, material, hit, depth, reflective_color, transmission_ray) ==
    IF F32Lt(F32Zero, material.transparency)
    THEN RefractiveBranch(
             calc_fresnel_reflectivity(hit.normal, ray.direction, material.refractive_index),
             transmission_ray, reflective_color,
             IF IsSome(transmission_ray)
             THEN cast_ray(sc, Leaving(hit.transmission, Unwrap(transmission_ray).direction),
                           depth + 1)
             ELSE Black).refractive_color
    ELSE Black

\* get_color after reflective_color
Shaded(sc, ray, material, hit, depth, reflective_color) ==
    Blend(material, shade_diffuse(sc, material, hit), reflective_color,
          Refraction(sc, ray, material, hit, depth, reflective_color,
                     create_transmission(hit.normal, ray.direction, hit.point,
                                         material.refractive_index)))

get_color(sc, ray, sight, depth) ==
    LET material == sc.materials[sc.objects[sight.object].material_index]
        hit == sc.surfaces[sight.surface]
        is_refractive == F32Lt(F32Zero, material.transparency)
        is_reflective == F32Lt(F32Zero, material.reflectivity) \/ is_refractive
    IN  Shaded(sc, ray, material, hit, depth,
               IF is_reflective
               THEN cast_ray(sc, Leaving(hit.reflection,
                        create_reflection(hit.normal, ray.direction, hit.point).direction),
                        depth + 1)
               ELSE Black)

\* cast_ray after Scene::trace: the two summands of the result and their sum
Traced(sc, ray, depth, found, base_color, debug_color) ==
    [hit |-> IsSome(found), base_color |-> base_color, debug_color |-> debug_color,
     color |-> ColorAdd(base_color, debug_color)]

\* min(kd_tree_lookups, 100) as f32 * (1.0 / 100.0), in the red channel
DebugColor(kd_tree_lookups) ==
    <<F32Mul(F32FromInt(IF kd_tree_lookups < 100 THEN kd_tree_lookups ELSE 100),
             F32Div(F32One, F32FromInt(100))),
      F32Zero, F32Zero>>

CastParts(sc, ray, depth) ==
    LET found == trace(ray)
    IN  Traced(sc, ray, depth, found,
               IF IsSome(found) THEN get_color(sc, ray, Unwrap(found), depth)
               ELSE sc.clear_color,
               DebugColor(ray.kd_tree_lookups))

cast_ray(sc, ray, depth) ==
    IF TooDeep(sc, depth) THEN Black
    ELSE CastParts(sc, ray, depth).color

(***************************************************************************)
(* The calls of cast_ray that one call of cast_ray causes, itself          *)
(* included, in the order in which they are made: for each its depth and   *)
(* whether it went on to Scene::trace.                                     *)
(***************************************************************************)
RECURSIVE CastLog(_, _, _)

\* The calls get_color makes: the reflection ray, then the transmission ray
ColorLog(sc, ray, sight, depth) ==
    LET material == sc.materials[sc.objects[sight.object].material_index]
        hit == sc.surfaces[sight.surface]
        is_refractive == F32Lt(F32Zero, material.transparency)
        is_reflective == F32Lt(F32Zero, material.reflectivity) \/ is_refractive
        transmission_ray == create_transmission(hit.normal, ray.direction, hit.point,
                                                material.refractive_index)
    IN  (IF is_reflective
         THEN CastLog(sc, Leaving(hit.reflection,
                  create_reflection(hit.normal, ray.direction, hit.point).direction),
                  depth + 1)
         ELSE <<>>)
        \o (IF is_refractive /\ IsSome(transmission_ray)
            THEN CastLog(sc, Leaving(hit.transmission, Unwrap(transmission_ray).direction),
                         depth + 1)
            ELSE <<>>)

CastLog(sc, ray, depth) ==
    IF TooDeep(sc, depth) THEN <<[depth |-> depth, traced |-> FALSE]>>
    ELSE <<[depth |-> depth, traced |-> TRUE]>>
             \o (IF IsSome(trace(ray)) THEN ColorLog(sc, ray, Unwrap(trace(ray)), depth)
                 ELSE <<>>)

\* What get_color's call of shade_diffuse gave for the hit of a ray: the object
\* and surface point shaded and the colour, or None when the ray hits nothing
DiffuseOf(sc, ray) ==
    LET found == trace(ray)
    IN  IF ~IsSome(found) THEN None
        ELSE Some([object |-> Unwrap(found).object, surface |-> Unwrap(found).surface,
                   diffuse_color |->
                       shade_diffuse(sc,
                           sc.materials[sc.objects[Unwrap(found).object].material_index],
                           sc.surfaces[Unwrap(found).surface])])

\* self.cast_ray(&world_ray, 0): its parts, the calls it caused and what shade_diffuse
\* gave for its hit
CastCamera(sc, ray) ==
    CastParts(sc, ray, 0) @@ [calls |-> CastLog(sc, ray, 0), shaded |-> DiffuseOf(sc, ray)]

\* Ray::from_screen_coordinates, Ray::transform and the scene's geometry: the camera
\* ray of a sample
CameraRay(sc, sample_x, sample_y) ==
    IF F32Lt(sample_x, sc.edge) THEN sc.left ELSE sc.right

(***************************************************************************)
(* Scenes.  Scene files are deserialised without validation, so a colour   *)
(* or a material weight may be any f32.                                    *)
(***************************************************************************)
Miss == [sees |-> <<>>, kd_tree_lookups |-> 0]
Sight(o, d, s) == [object |-> o, distance |-> d, surface |-> s]
Meets(sees, lookups) == [sees |-> sees, kd_tree_lookups |-> lookups]
Camera(direction, optics) == Leaving(optics, direction)

Up == <<F32Zero, F32Zero, F32One>>
Down == <<F32Zero, F32Zero, F32Neg(F32One)>>
\* (0.6, 0, -0.8)
Oblique == <<F32(10066330, -24), F32Zero, F32Neg(F32(13421773, -24))>>
\* (0.656469464302063, 0, 0.7543525695800781)
Grazing == <<F32(11013730, -24), F32Zero, F32(12655936, -24)>>

White == <<F32One, F32One, F32One>>
\* (0.2, 0.3, 0.4)
Slate == <<F32(13421773, -26), F32(10066330, -25), F32(13421773, -25)>>
\* (0.9, 0.1, 0.7)
Magenta == <<F32(15099494, -24), F32(13421773, -27), F32(11744051, -24)>>
\* (2.0, 0.5, 0.0)
Overbright == <<F32Two, F32Half, F32Zero>>

Matte == [color |-> Magenta, albedo |-> F32One, reflectivity |-> F32Zero,
          transparency |-> F32Zero, refractive_index |-> F32One]
\* reflectivity 0.6
Mirror == [color |-> Slate, albedo |-> F32Half, reflectivity |-> F32(10066330, -24),
           transparency |-> F32Zero, refractive_index |-> F32One]
\* reflectivity 0.2, transparency 0.3
Lacquer == [color |-> White, albedo |-> F32One, reflectivity |-> F32(13421773, -26),
            transparency |-> F32(10066330, -25), refractive_index |-> F32(12582912, -23)]
\* transparency 0.9, refractive index 1.523300051689148
Glass == [color |-> White, albedo |-> F32Half, reflectivity |-> F32Zero,
          transparency |-> F32(15099494, -24), refractive_index |-> F32(12778367, -23)]

\* A directional light is at distance f32::INFINITY (None), a point light at a finite one
Sun(shadow) == [to_light |-> Up, distance_at |-> None, intensity_at |-> F32FromInt(5),
                shadow |-> shadow]
Lamp(shadow) == [to_light |-> Up, distance_at |-> Some(F32Two), intensity_at |-> F32Half,
                 shadow |-> shadow]
Surface(reflection, transmission, lights) ==
    [normal |-> Up, point |-> Origin, reflection |-> reflection,
     transmission |-> transmission, lights |-> lights]

SceneOf(resolution, aa_samples, clear_color, materials, objects, lights, max_recursion_depth, surfaces, left, right) ==
    [resolution |-> resolution, aa_samples |-> aa_samples, clear_color |-> clear_color,
     materials |-> materials, objects |-> objects, ambient_light_color |-> Slate,
     lights |-> lights, max_recursion_depth |-> max_recursion_depth,
     surfaces |-> surfaces, edge |-> F32(8388608, -25), left |-> left, right |-> right]

\* No objects, clear colour (0.2, 0.3, 0.4), 2 x 2 pixels
EmptyScene(aa_samples) ==
    SceneOf(<<2, 2>>, aa_samples, Slate, <<>>, <<>>, <<>>, 2, <<>>,
            Camera(Down, Miss), Camera(Down, Miss))
\* No objects, a clear colour above 1.0
OverbrightScene ==
    SceneOf(<<1, 1>>, 1, Overbright, <<>>, <<>>, <<>>, 2, <<>>,
            Camera(Down, Miss), Camera(Down, Miss))
\* A matte object left of the edge under a bright sun
MatteScene ==
    SceneOf(<<2, 1>>, 2, Slate, <<Matte>>, <<[material_index |-> 1]>>, <<[color |-> White]>>, 2,
            <<Surface(Miss, Miss, <<Sun(Miss)>>)>>,
            Camera(Oblique, Meets(<<Sight(1, F32Two, 1)>>, 0)), Camera(Oblique, Miss))
\* Two objects at the same distance; the first light is hidden by the second object,
\* the second light is nearer than the object its shadow ray meets
ShadowScene ==
    SceneOf(<<2, 1>>, 1, Slate, <<Matte, Lacquer>>,
            <<[material_index |-> 1], [material_index |-> 2]>>,
            <<[color |-> White], [color |-> Magenta]>>, 1,
            <<Surface(Miss, Miss,
                      <<Sun(Meets(<<Sight(2, F32One, 2)>>, 0)),
                        Lamp(Meets(<<Sight(2, F32FromInt(3), 2)>>, 0))>>),
              Surface(Miss, Miss, <<Sun(Miss), Lamp(Miss)>>)>>,
            Camera(Oblique, Meets(<<Sight(1, F32Two, 1), Sight(2, F32Two, 2)>>, 0)),
            Camera(Oblique, Meets(<<Sight(2, F32One, 2)>>, 0)))
\* A matte object; left the lamp is hidden by an object nearer than the lamp and the
\* sun is free, right the sun is hidden and the lamp's shadow ray meets an object
\* exactly at the lamp's distance
PenumbraScene ==
    SceneOf(<<2, 1>>, 1, Slate, <<Matte>>,
            <<[material_index |-> 1], [material_index |-> 1]>>,
            <<[color |-> White], [color |-> Magenta]>>, 1,
            <<Surface(Miss, Miss,
                      <<Sun(Miss), Lamp(Meets(<<Sight(2, F32One, 2)>>, 0))>>),
              Surface(Miss, Miss,
                      <<Sun(Meets(<<Sight(1, F32FromInt(3), 1)>>, 0)),
                        Lamp(Meets(<<Sight(1, F32Two, 1)>>, 0))>>)>>,
            Camera(Oblique, Meets(<<Sight(1, F32Two, 1)>>, 0)),
            Camera(Oblique, Meets(<<Sight(2, F32One, 2)>>, 0)))
\* Two mirrors facing each other
MirrorScene ==
    SceneOf(<<2, 1>>, 1, Slate, <<Mirror>>,
            <<[material_index |-> 1], [material_index |-> 1]>>, <<[color |-> White]>>, 2,
            <<Surface(Meets(<<Sight(2, F32One, 2)>>, 0), Miss, <<Lamp(Miss)>>),
              Surface(Meets(<<Sight(1, F32One, 1)>>, 0), Miss, <<Lamp(Miss)>>)>>,
            Camera(Oblique, Meets(<<Sight(1, F32Two, 1)>>, 0)), Camera(Oblique, Miss))
\* A glass object seen from inside at the critical angle (left) and from outside (right)
GlassScene ==
    SceneOf(<<2, 1>>, 1, Slate, <<Glass, Matte>>,
            <<[material_index |-> 1], [material_index |-> 2]>>, <<[color |-> White]>>, 2,
            <<Surface(Meets(<<Sight(2, F32One, 2)>>, 0), Miss, <<Lamp(Miss)>>),
              Surface(Miss, Miss, <<Lamp(Miss)>>)>>,
            Camera(Grazing, Meets(<<Sight(1, F32Two, 1)>>, 0)),
            Camera(Oblique, Meets(<<Sight(1, F32Two, 1)>>, 0)))
\* A lacquered object whose reflected and transmitted rays both meet it again
LacquerScene ==
    SceneOf(<<2, 1>>, 1, Slate, <<Lacquer>>, <<[material_index |-> 1]>>, <<[color |-> White]>>, 1,
            <<Surface(Meets(<<Sight(1, F32One, 1)>>, 0), Meets(<<Sight(1, F32One, 1)>>, 0),
                      <<Lamp(Miss)>>)>>,
            Camera(Oblique, Meets(<<Sight(1, F32Two, 1)>>, 0)), Camera(Oblique, Miss))
\* A mesh built with debug: 50 lookups for the rays that hit it, 120 for those that miss
DebugScene ==
    SceneOf(<<2, 1>>, 1, Slate, <<Matte>>, <<[material_index |-> 1]>>, <<[color |-> White]>>, 2,
            <<Surface(Miss, Miss, <<Sun(Miss)>>)>>,
            Camera(Oblique, Meets(<<Sight(1, F32Two, 1)>>, 50)),
            Camera(Oblique, Meets(<<>>, 120)))

Scenes == {EmptyScene(1), EmptyScene(2), EmptyScene(24), OverbrightScene, MatteScene,
           ShadowScene, PenumbraScene, MirrorScene, GlassScene, LacquerScene, DebugScene}

\* rng.sample(distr): the thread-local generator is seeded by the operating system, and
\* neither Renderer nor Scene holds a seed; -0.5, 0.0 and 0.5 stand for its draws
Jitters == {F32Neg(F32Half), F32Zero, F32Half}

MaxInvocations == 2

Width == scene.resolution[1]
Height == scene.resolution[2]

InitRd ==
    /\ scene \in Scenes
    /\ images = <<>> /\ pc = "idle" /\ img = <<>>
    /\ x_local = 0 /\ y_local = 0 /\ samples_done = 0 /\ color_sum = Black /\ cast = None

\* render: render_rect(0, 0, size.0, size.1) up to the pixel loop
render ==
    /\ pc = "idle"
    /\ Len(images) < MaxInvocations
    /\ pc' = "loop"
    /\ img' = [i \in 1..(Width * Height) |-> <<0, 0, 0>>]
    /\ x_local' = 0 /\ y_local' = 0 /\ samples_done' = 0 /\ color_sum' = Black
    /\ cast' = None
    /\ UNCHANGED <<scene, images>>
    /\ UNCHANGED notRd

\* One iteration of the sample loop, after cast_ray(&world_ray, 0)
Sampled(parts) ==
    /\ cast' = Some(parts)
    /\ color_sum' = ColorAdd(color_sum, parts.color)
    /\ samples_done' = samples_done + 1
    /\ UNCHANGED <<scene, images, pc, img, x_local, y_local>>
    /\ UNCHANGED notRd

\* One iteration of the sample loop
Sample(dx, dy) ==
    /\ pc = "loop"
    /\ y_local < Height
    /\ samples_done < scene.aa_samples
    /\ Sampled(CastCamera(scene,
                          CameraRay(scene, F32Add(F32FromInt(0 + x_local), dx),
                                    F32Add(F32FromInt(0 + y_local), dy))))

\* The end of a pixel's iteration: the average is quantised and stored
PutPixel ==
    /\ pc = "loop"
    /\ y_local < Height
    /\ samples_done = scene.aa_samples
    /\ LET color == ColorDiv(color_sum, F32FromInt(scene.aa_samples))
       IN  img' = [img EXCEPT ![y_local * Width + x_local + 1] = to_u8(color)]
    /\ IF x_local + 1 < Width
       THEN x_local' = x_local + 1 /\ y_local' = y_local
       ELSE x_local' = 0 /\ y_local' = y_local + 1
    /\ samples_done' = 0 /\ color_sum' = Black
    /\ UNCHANGED <<scene, images, pc, cast>>
    /\ UNCHANGED notRd

\* render_rect returns img
Return ==
    /\ pc = "loop"
    /\ y_local = Height
    /\ images' = Append(images, img)
    /\ pc' = "idle"
    /\ UNCHANGED <<scene, img, x_local, y_local, samples_done, color_sum, cast>>
    /\ UNCHANGED notRd

NextRd ==
    \/ render
    \/ \E dx \in Jitters, dy \in Jitters : Sample(dx, dy)
    \/ PutPixel
    \/ Return

(***************************************************************************)
(*                     Claims about the renderer                           *)
(***************************************************************************)
\* C4: two invocations of Renderer::render on one scene return bit-identical images.
C4_DeterministicRender ==
    Len(images) = 2 => images[1] = images[2]

Abs(x) == IF x < 0 THEN -x ELSE x
InUnit(c) == \A i \in 1..3 : F32Le(F32Zero, c[i]) /\ F32Le(c[i], F32One)

\* The exact value of an f32 in units of 2^-28
Units28(a) ==
    IF a[1] = 0 THEN 0
    ELSE IF a[3] + 28 >= 0 THEN a[1] * a[2] * 2^(a[3] + 28)
    ELSE a[1] * (a[2] \div 2^(-a[3] - 28))
\* The exact sum of the three blend weights of a material, in units of 2^-28
WeightSum(m) ==
    Units28(F32Sub(F32Sub(F32One, m.reflectivity), m.transparency))
        + Units28(m.reflectivity) + Units28(m.transparency)
Materials == {scene.materials[i] : i \in 1..Len(scene.materials)}

\* C5 as stated: every channel of the colour cast_ray returns at depth 0 is between 0
\* and 1, and the three blend weights of get_color sum to at most 1.
C5_CastRayInUnitRange ==
    IsSome(cast) =>
        /\ InUnit(Unwrap(cast).color)
        /\ \A m \in Materials : WeightSum(m) <= 2^28

\* C5, amended: every channel of the colour get_color returns is between 0 and 1,
\* cast_ray returns it plus the debug tint, and the three blend weights sum to 1 up
\* to the rounding of the two subtractions (2^-24).
C5_ShadedColorInUnitRange ==
    IsSome(cast) =>
        /\ Unwrap(cast).hit => InUnit(Unwrap(cast).base_color)
        /\ Unwrap(cast).color
               = ColorAdd(Unwrap(cast).base_color, Unwrap(cast).debug_color)
        /\ \A m \in Materials : Abs(WeightSum(m) - 2^28) <= 16

\* A camera ray hits a mesh built with debug under a bright sun: get_color's red
\* channel is clamped to 1.0 and the tint lifts cast_ray's result above it.
C5_Witness ==
    /\ IsSome(cast) /\ Unwrap(cast).hit
    /\ Unwrap(cast).base_color[1] = F32One
    /\ F32Lt(F32Zero, Unwrap(cast).debug_color[1])
    /\ ~InUnit(Unwrap(cast).color)

Written == {i \in 1..Len(img) : i < y_local * Width + x_local + 1}

\* C6: in a scene with no objects every pixel written by render is the 8-bit
\* quantisation of scene.clear_color, for any aa_samples >= 1.
C6_ClearColor ==
    pc = "loop" /\ scene.objects = <<>> /\ scene.aa_samples >= 1
        => \A i \in Written : img[i] = to_u8(scene.clear_color)
(***************************************************************************)
(*                    KD TREE (mesh.rs, aabb.rs)                           *)
(*                                                                         *)
(* LinearKDTree::build runs as a stack of build_node activations (frames): *)
(* a step is the part of an activation between two of its calls.  A frame  *)
(* holds the arguments of the activation; its slice triangle_indices_above *)
(* is indices_above from above_start on, its triangle_indices_below is all *)
(* of indices_below.  LinearKDTree::intersect runs one iteration of its    *)
(* loop a step.  Indices are 0-based as in the source; a sequence holds    *)
(* the element of index i at position i + 1.                               *)
(***************************************************************************)
\* The largest max_depth and max_leaf_size of the options a tree is built with.
MaxDepth == 3
MaxLeafSize == 1

\* Vector3::cross
V3Cross(a, b) ==
    <<F32Sub(F32Mul(a[2], b[3]), F32Mul(a[3], b[2])),
      F32Sub(F32Mul(a[3], b[1]), F32Mul(a[1], b[3])),
      F32Sub(F32Mul(a[1], b[2]), F32Mul(a[2], b[1]))>>

\* MeshData::get_vertex_position
get_vertex_position(d, index) == d.vertex_positions[index + 1]
\* The k-th corner of the triangle of index t
Corner3(d, t, k) == get_vertex_position(d, d.triangles[t + 1].position_indices[k])

(***************************************************************************)
(* intersect_triangle (Moeller-Trumbore), None or Some(TriangleHit)        *)
(***************************************************************************)
\* from the test of t on
TriangleT(t, u, v) ==
    IF F32Lt(t, F32Zero) THEN None ELSE Some([distance |-> t, u |-> u, v |-> v])
\* from the test of v on
TriangleV(v0v2, qvec, inv_det, u, v) ==
    IF F32Lt(v, F32Zero) \/ F32Gt(F32Add(u, v), F32One) THEN None
    ELSE TriangleT(F32Mul(V3Dot(v0v2, qvec), inv_det), u, v)
\* from `let v` on
TriangleQ(r, v0v2, inv_det, u, qvec) ==
    TriangleV(v0v2, qvec, inv_det, u, F32Mul(V3Dot(r.direction, qvec), inv_det))
\* from the test of u on
TriangleU(r, v0v1, v0v2, inv_det, tvec, u) ==
    IF F32Lt(u, F32Zero) \/ F32Gt(u, F32One) THEN None
    ELSE TriangleQ(r, v0v2, inv_det, u, V3Cross(tvec, v0v1))
\* from `let u` on
TriangleTvec(r, v0v1, v0v2, pvec, inv_det, tvec) ==
    TriangleU(r, v0v1, v0v2, inv_det, tvec, F32Mul(V3Dot(tvec, pvec), inv_det))
\* from the test of det on
TriangleDet(r, v0, v0v1, v0v2, pvec, det) ==
    IF F32Lt(F32Abs(det), F32_EPSILON) THEN None
    ELSE TriangleTvec(r, v0v1, v0v2, pvec, F32Div(F32One, det), V3Sub(r.origin, v0))
\* from `let det` on
TrianglePvec(r, v0, v0v1, v0v2, pvec) ==
    TriangleDet(r, v0, v0v1, v0v2, pvec, V3Dot(v0v1, pvec))
\* from `let pvec` on
TriangleEdges(r, v0, v0v1, v0v2) ==
    TrianglePvec(r, v0, v0v1, v0v2, V3Cross(r.direction, v0v2))
intersect_triangle(r, v0, v1, v2) == TriangleEdges(r, v0, V3Sub(v1, v0), V3Sub(v2, v0))

(***************************************************************************)
(* AABB (aabb.rs).  An axis is 0, 1 or 2 (Axis::X, Y, Z).                  *)
(***************************************************************************)
AABB(lo, hi) == [min |-> lo, max |-> hi]
empty ==
    AABB(<<F32Infinity, F32Infinity, F32Infinity>>,
         <<F32Neg(F32Infinity), F32Neg(F32Infinity), F32Neg(F32Infinity)>>)
from_triangle(p1, p2, p3) ==
    AABB([i \in 1..3 |-> F32Min(F32Min(p1[i], p2[i]), p3[i])],
         [i \in 1..3 |-> F32Max(F32Max(p1[i], p2[i]), p3[i])])
union(a, b) ==
    AABB([i \in 1..3 |-> F32Min(a.min[i], b.min[i])],
         [i \in 1..3 |-> F32Max(a.max[i], b.max[i])])

\* maximum_extent after `let extent`
Longest(extent) ==
    IF F32Gt(extent[1], extent[2]) /\ F32Gt(extent[1], extent[3]) THEN 0
    ELSE IF F32Gt(extent[2], extent[3]) THEN 1 ELSE 2
\* Mutant of maximum_extent: the comparisons admit equality, so x wins over y over z.
maximum_extent_x_first(b) ==
    LET extent == V3Sub(b.max, b.min)
    IN  IF F32Ge(extent[1], extent[2]) /\ F32Ge(extent[1], extent[3]) THEN 0
        ELSE IF F32Ge(extent[2], extent[3]) THEN 1 ELSE 2
maximum_extent(b) == Longest(V3Sub(b.max, b.min))

\* intersects_p: (bound - origin) * dirfrac on axis i (1..3)
SlabT(bound, r, i) ==
    F32Mul(F32Sub(bound[i], r.origin[i]), F32Div(F32One, r.direction[i]))
SlabMin(b, r, i) == F32Min(SlabT(b.min, r, i), SlabT(b.max, r, i))
SlabMax(b, r, i) == F32Max(SlabT(b.min, r, i), SlabT(b.max, r, i))
\* intersects_p after tmin and tmax
Interval(tmin, tmax) ==
    IF F32Lt(tmax, F32Zero) THEN None
    ELSE IF F32Gt(tmin, tmax) THEN None
    ELSE Some(<<tmin, tmax>>)
intersects_p(b, r) ==
    Interval(F32Max(F32Max(SlabMin(b, r, 1), SlabMin(b, r, 2)), SlabMin(b, r, 3)),
             F32Min(F32Min(SlabMax(b, r, 1), SlabMax(b, r, 2)), SlabMax(b, r, 3)))

(***************************************************************************)
(* LinearKDTreeNode                                                        *)
(***************************************************************************)
\* u32 << 2: checked_shl fails on a shift of 32 or more only
Shl2(n) == (n % 2^30) * 4
new_leaf(triangle_count, triangles_start_index) ==
    [first_field |-> Shl2(triangle_count) + 3, second_field |-> triangles_start_index]
\* second_field keeps the bits of the f32
new_inner(above_child_index, split_axis, split_position) ==
    [first_field |-> Shl2(above_child_index) + split_axis, second_field |-> split_position]
is_inner(node) == node.first_field % 4 # 3
split_axis_of(node) == node.first_field % 4
above_child_index_of(node) == node.first_field \div 4
\* Mutant of set_above_child_index: the index stored is one too small.
set_above_child_index_short(node, above_child_index) ==
    [node EXCEPT !.first_field = Shl2(above_child_index - 1) + (node.first_field % 4)]
set_above_child_index(node, above_child_index) ==
    [node EXCEPT !.first_field = Shl2(above_child_index) + (node.first_field % 4)]
triangle_count_of(node) == node.first_field \div 4
triangles_start_index_of(node) == node.second_field
split_position_of(node) == node.second_field

(***************************************************************************)
(* LinearKDTree::build                                                     *)
(***************************************************************************)
TriangleCount(d) == Len(d.triangles)

\* round(1.3 * log2(n)) as usize: the k with 2^(10k - 5) <= n^13 < 2^(10k + 5);
\* log2(0) is -inf and casts to 0
RoundedLog(n) ==
    IF n <= 1 THEN 0
    ELSE CHOOSE k \in 0..3 : /\ k = 0 \/ n^13 >= 2^(10 * k - 5)
                             /\ k = 3 \/ n^13 < 2^(10 * k + 5)
max_depth_of(o, n) == IF IsSome(o.max_depth) THEN Unwrap(o.max_depth) ELSE 8 + RoundedLog(n)

\* triangle_bounding_boxes[t]
TriangleBox(d, t) == from_triangle(Corner3(d, t, 1), Corner3(d, t, 2), Corner3(d, t, 3))
\* The loop over data.triangles, from the triangle of index t on
RECURSIVE root_bounding_box(_, _, _)
root_bounding_box(d, t, box) ==
    IF t >= TriangleCount(d) THEN box
    ELSE root_bounding_box(d, t + 1, union(box, TriangleBox(d, t)))

\* An activation of build_node that has not run yet
Call(is_above, triangle_count, node_bounding_box, depth_remaining, above_start) ==
    [is_above |-> is_above, triangle_count |-> triangle_count,
     node_bounding_box |-> node_bounding_box, depth_remaining |-> depth_remaining,
     above_start |-> above_start, stage |-> "entered", node_index |-> 0,
     n_above |-> 0, split_axis |-> 0, split_position |-> F32Zero]

\* Mutant of build: indices_above is given one entry per triangle only.
build_single_level(d, o) ==
    /\ phase = "idle"
    /\ data' = d
    /\ options' = o
    /\ bounding_box' = root_bounding_box(d, 0, empty)
    /\ indices_below' = [i \in 1..TriangleCount(d) |-> i - 1]
    /\ indices_above' = [i \in 1..TriangleCount(d) |-> 0]
    /\ nodes' = <<>>
    /\ linear_triangle_indices' = <<>>
    /\ frames' = <<Call(FALSE, TriangleCount(d), root_bounding_box(d, 0, empty),
                        max_depth_of(o, TriangleCount(d)), 0)>>
    /\ phase' = "build"
    /\ UNCHANGED <<intersect_stack_capacity, the_ray, todo_stack, nearest_hit,
                   node_lookups, returned>>
    /\ UNCHANGED notKd
\* build up to its call of build_node
build(d, o) ==
    /\ phase = "idle"
    /\ data' = d
    /\ options' = o
    /\ bounding_box' = root_bounding_box(d, 0, empty)
    /\ indices_below' = [i \in 1..TriangleCount(d) |-> i - 1]
    /\ indices_above' =
           [i \in 1..(max_depth_of(o, TriangleCount(d)) + 1) * TriangleCount(d) |-> 0]
    /\ nodes' = <<>>
    /\ linear_triangle_indices' = <<>>
    /\ frames' = <<Call(FALSE, TriangleCount(d), root_bounding_box(d, 0, empty),
                        max_depth_of(o, TriangleCount(d)), 0)>>
    /\ phase' = "build"
    /\ UNCHANGED <<intersect_stack_capacity, the_ray, todo_stack, nearest_hit,
                   node_lookups, returned>>
    /\ UNCHANGED notKd

Top == frames[Len(frames)]
Callers == SubSeq(frames, 1, Len(frames) - 1)

\* Mutant of TriangleIndices: the triangles are always read from triangle_indices_below.
TriangleIndices_below(f) ==
    SubSeq(indices_below, 1, f.triangle_count)
\* let triangle_indices
TriangleIndices(f) ==
    IF f.is_above THEN SubSeq(indices_above, f.above_start + 1, f.above_start + f.triangle_count)
    ELSE SubSeq(indices_below, 1, f.triangle_count)

\* Mutant of IsLeafCall: depth_remaining is not looked at.
IsLeafCall_by_count(f) == f.triangle_count <= options.max_leaf_size
IsLeafCall(f) == f.triangle_count <= options.max_leaf_size \/ f.depth_remaining = 0

\* Mutant of build_node_leaf: the leaf's start is the number of nodes, not the length
\* of linear_triangle_indices.
build_node_leaf_by_node ==
    /\ phase = "build" /\ frames # <<>>
    /\ Top.stage = "entered" /\ IsLeafCall(Top)
    /\ linear_triangle_indices' = linear_triangle_indices \o TriangleIndices(Top)
    /\ nodes' = Append(nodes, new_leaf(Top.triangle_count, Len(nodes)))
    /\ frames' = Callers
    /\ UNCHANGED <<data, options, bounding_box, indices_below, indices_above, phase,
                   intersect_stack_capacity, the_ray, todo_stack, nearest_hit,
                   node_lookups, returned>>
    /\ UNCHANGED notKd
\* build_node, the leaf branch
build_node_leaf ==
    /\ phase = "build" /\ frames # <<>>
    /\ Top.stage = "entered" /\ IsLeafCall(Top)
    /\ linear_triangle_indices' = linear_triangle_indices \o TriangleIndices(Top)
    /\ nodes' = Append(nodes, new_leaf(Top.triangle_count, Len(linear_triangle_indices)))
    /\ frames' = Callers
    /\ UNCHANGED <<data, options, bounding_box, indices_below, indices_above, phase,
                   intersect_stack_capacity, the_ray, todo_stack, nearest_hit,
                   node_lookups, returned>>
    /\ UNCHANGED notKd

BoundEdge(position, triangle_index, is_end) ==
    [position |-> position, triangle_index |-> triangle_index, is_end |-> is_end]
\* The loop that fills edges: the lower and the upper edge of every triangle
EdgesOf(triangle_indices, split_axis) ==
    [k \in 1..2 * Len(triangle_indices) |->
        IF k % 2 = 1
        THEN BoundEdge(TriangleBox(data, triangle_indices[(k + 1) \div 2]).min[split_axis + 1],
                       triangle_indices[(k + 1) \div 2], FALSE)
        ELSE BoundEdge(TriangleBox(data, triangle_indices[(k + 1) \div 2]).max[split_axis + 1],
                       triangle_indices[(k + 1) \div 2], TRUE)]

(***************************************************************************)
(* sort_unstable_by on the positions.  The sort does not promise an order  *)
(* among edges of equal position: before_equal tells whether an edge comes *)
(* out before or behind the edges of its position that precede it in the   *)
(* input.                                                                  *)
(***************************************************************************)
Place(sorted, edge, before_equal) ==
    LET k == Cardinality({j \in 1..Len(sorted) :
                 IF before_equal THEN F32Lt(sorted[j].position, edge.position)
                 ELSE F32Le(sorted[j].position, edge.position)})
    IN  SubSeq(sorted, 1, k) \o <<edge>> \o SubSeq(sorted, k + 1, Len(sorted))
RECURSIVE SortFrom(_, _, _, _)
SortFrom(edges, i, sorted, before_equal) ==
    IF i > Len(edges) THEN sorted
    ELSE SortFrom(edges, i + 1, Place(sorted, edges[i], before_equal), before_equal)
sort_unstable_by(edges, before_equal) == SortFrom(edges, 1, <<>>, before_equal)

\* (edges[len / 2].position + edges[len / 2 + 1].position) * 0.5
Median(edges) ==
    F32Mul(F32Add(edges[Len(edges) \div 2 + 1].position,
                  edges[Len(edges) \div 2 + 2].position), F32Half)

\* The first partition loop: the value of i when it ends
RECURSIVE BelowEnd(_, _, _)
BelowEnd(edges, i, split_position) ==
    IF i < Len(edges) /\ F32Le(edges[i + 1].position, split_position)
    THEN BelowEnd(edges, i + 1, split_position)
    ELSE i

\* The triangles of the edges with the given is_end, in order
Picked(edges, is_end) ==
    LET Wanted(e) == e.is_end = is_end
        picked == SelectSeq(edges, Wanted)
    IN  [k \in 1..Len(picked) |-> picked[k].triangle_index]

\* buffer[offset + k] = values[k] for every k
WriteAt(buffer, offset, values) ==
    [k \in 1..Len(buffer) |->
        IF k > offset /\ k <= offset + Len(values) THEN values[k - offset] ELSE buffer[k]]

\* node_bounding_box with max (or min) on the split axis replaced
CutMax(box, split_axis, split_position) ==
    [box EXCEPT !.max = [@ EXCEPT ![split_axis + 1] = split_position]]
CutMin(box, split_axis, split_position) ==
    [box EXCEPT !.min = [@ EXCEPT ![split_axis + 1] = split_position]]

\* Mutant of Descend: the below child is handed the whole of triangle_indices_above.
Descend_whole_slice(f, split_axis, split_position, below, above) ==
    /\ indices_below' = WriteAt(indices_below, 0, below)
    /\ indices_above' = WriteAt(indices_above, f.above_start, above)
    /\ nodes' = Append(nodes, new_inner(0, split_axis, split_position))
    /\ frames' = Callers
           \o <<[f EXCEPT !.stage = "below", !.node_index = Len(nodes),
                          !.n_above = Len(above), !.split_axis = split_axis,
                          !.split_position = split_position]>>
           \o <<Call(FALSE, Len(below),
                     CutMax(f.node_bounding_box, split_axis, split_position),
                     f.depth_remaining - 1, f.above_start)>>
\* build_node from the writes of the partition loops up to the call for the below child
Descend(f, split_axis, split_position, below, above) ==
    /\ indices_below' = WriteAt(indices_below, 0, below)
    /\ indices_above' = WriteAt(indices_above, f.above_start, above)
    /\ nodes' = Append(nodes, new_inner(0, split_axis, split_position))
    /\ frames' = Callers
           \o <<[f EXCEPT !.stage = "below", !.node_index = Len(nodes),
                          !.n_above = Len(above), !.split_axis = split_axis,
                          !.split_position = split_position]>>
           \o <<Call(FALSE, Len(below),
                     CutMax(f.node_bounding_box, split_axis, split_position),
                     f.depth_remaining - 1, f.above_start + Len(above))>>
\* Mutant of Divide: the second loop starts over from the first edge.
Divide_from_start(f, split_axis, edges, split_position, i) ==
    Descend(f, split_axis, split_position,
            Picked(SubSeq(edges, 1, i), FALSE),
            Picked(edges, TRUE))
\* build_node, the two partition loops
Divide(f, split_axis, edges, split_position, i) ==
    Descend(f, split_axis, split_position,
            Picked(SubSeq(edges, 1, i), FALSE),
            Picked(SubSeq(edges, i + 1, Len(edges)), TRUE))
\* build_node after split_position
SplitAt(f, split_axis, edges, split_position) ==
    Divide(f, split_axis, edges, split_position, BelowEnd(edges, 0, split_position))
\* build_node after the sort
Sorted(f, split_axis, edges) == SplitAt(f, split_axis, edges, Median(edges))
\* build_node after split_axis
Chosen(f, split_axis, before_equal) ==
    Sorted(f, split_axis,
           sort_unstable_by(EdgesOf(TriangleIndices(f), split_axis), before_equal))

\* edges[edges.len() / 2 + 1] exists
MedianInBounds(f) == f.triangle_count >= 2

\* build_node, an inner node up to the call for the below child
build_node_split(before_equal) ==
    /\ phase = "build" /\ frames # <<>>
    /\ Top.stage = "entered" /\ ~IsLeafCall(Top) /\ MedianInBounds(Top)
    /\ Chosen(Top, maximum_extent(Top.node_bounding_box), before_equal)
    /\ UNCHANGED <<data, options, bounding_box, linear_triangle_indices, phase,
                   intersect_stack_capacity, the_ray, todo_stack, nearest_hit,
                   node_lookups, returned>>
    /\ UNCHANGED notKd

\* build_node, an inner node of one triangle: the index len / 2 + 1 is out of bounds
build_node_panic ==
    /\ phase = "build" /\ frames # <<>>
    /\ Top.stage = "entered" /\ ~IsLeafCall(Top) /\ ~MedianInBounds(Top)
    /\ phase' = "panicked"
    /\ UNCHANGED <<data, options, bounding_box, nodes, linear_triangle_indices,
                   indices_below, indices_above, frames, intersect_stack_capacity,
                   the_ray, todo_stack, nearest_hit, node_lookups, returned>>
    /\ UNCHANGED notKd

\* build_node from the return of the below child up to the call for the above child
build_node_above ==
    /\ phase = "build" /\ frames # <<>>
    /\ Top.stage = "below"
    /\ nodes' = [nodes EXCEPT ![Top.node_index + 1] = set_above_child_index(@, Len(nodes))]
    /\ frames' = Callers
           \o <<[Top EXCEPT !.stage = "above"]>>
           \o <<Call(TRUE, Top.n_above,
                     CutMin(Top.node_bounding_box, Top.split_axis, Top.split_position),
                     Top.depth_remaining - 1, Top.above_start)>>
    /\ UNCHANGED <<data, options, bounding_box, linear_triangle_indices, indices_below,
                   indices_above, phase, intersect_stack_capacity, the_ray, todo_stack,
                   nearest_hit, node_lookups, returned>>
    /\ UNCHANGED notKd

\* build_node returns after the above child
build_node_return ==
    /\ phase = "build" /\ frames # <<>>
    /\ Top.stage = "above"
    /\ frames' = Callers
    /\ UNCHANGED <<data, options, bounding_box, nodes, linear_triangle_indices,
                   indices_below, indices_above, phase, intersect_stack_capacity,
                   the_ray, todo_stack, nearest_hit, node_lookups, returned>>
    /\ UNCHANGED notKd

RECURSIVE max_depth_recursive(_, _)
max_depth_recursive(ns, node_index) ==
    IF is_inner(ns[node_index + 1])
    THEN 1 + (IF max_depth_recursive(ns, node_index + 1)
                    >= max_depth_recursive(ns, above_child_index_of(ns[node_index + 1]))
              THEN max_depth_recursive(ns, node_index + 1)
              ELSE max_depth_recursive(ns, above_child_index_of(ns[node_index + 1])))
    ELSE 1

\* 0.65f32 = 0.6499999761581421
F32_065 == F32(10905190, -24)

\* build after build_node
build_return ==
    /\ phase = "build" /\ frames = <<>>
    /\ intersect_stack_capacity' =
           F32RoundToUsize(F32Mul(F32FromInt(max_depth_recursive(nodes, 0)), F32_065))
    /\ phase' = "built"
    /\ UNCHANGED <<data, options, bounding_box, nodes, linear_triangle_indices,
                   indices_below, indices_above, frames, the_ray, todo_stack,
                   nearest_hit, node_lookups, returned>>
    /\ UNCHANGED notKd

(***************************************************************************)
(* LinearKDTree::intersect.  The top of todo_stack is its last element.    *)
(***************************************************************************)
ToDoItem(node_index, t_min, t_max) ==
    [node_index |-> node_index, t_min |-> t_min, t_max |-> t_max]

\* intersect after intersects_p
Entered(r, bb) ==
    /\ the_ray' = r
    /\ nearest_hit' = None
    /\ IF IsSome(bb)
       THEN /\ todo_stack' = <<ToDoItem(0, Unwrap(bb)[1], Unwrap(bb)[2])>>
            /\ node_lookups' = 1
            /\ phase' = "traverse"
            /\ returned' = None
       ELSE /\ todo_stack' = <<>>
            /\ node_lookups' = 0
            /\ phase' = "returned"
            /\ returned' = None

\* intersect up to its loop
intersect(r) ==
    /\ phase = "built"
    /\ Entered(r, intersects_p(bounding_box, r))
    /\ UNCHANGED <<data, options, bounding_box, nodes, linear_triangle_indices,
                   indices_below, indices_above, frames, intersect_stack_capacity>>
    /\ UNCHANGED notKd

TopToDo == todo_stack[Len(todo_stack)]
Pending == SubSeq(todo_stack, 1, Len(todo_stack) - 1)

\* nearest_hit.distance < t_min
Behind(item) == IsSome(nearest_hit) /\ F32Lt(Unwrap(nearest_hit).distance, item.t_min)

\* nearest_hit.map(...): the Hit without its normal and texture coordinates
HitOf(nearest) ==
    IF IsSome(nearest)
    THEN Some([distance |-> Unwrap(nearest).distance,
               point |-> V3Add(the_ray.origin,
                               V3Scale(the_ray.direction, Unwrap(nearest).distance))])
    ELSE None

\* The loop pops an item behind the nearest hit and breaks; intersect returns
intersect_break ==
    /\ phase = "traverse" /\ todo_stack # <<>>
    /\ Behind(TopToDo)
    /\ todo_stack' = Pending
    /\ returned' = HitOf(nearest_hit)
    /\ phase' = "returned"
    /\ UNCHANGED <<data, options, bounding_box, nodes, linear_triangle_indices,
                   indices_below, indices_above, frames, intersect_stack_capacity,
                   the_ray, nearest_hit, node_lookups>>
    /\ UNCHANGED notKd

\* Mutant of Pushed: when both children are crossed the first one is pushed twice.
Pushed_first_twice(item, first_child_index, second_child_index, t_split) ==
    IF F32Gt(t_split, item.t_max) \/ F32Le(t_split, F32Zero)
    THEN Append(Pending, ToDoItem(first_child_index, item.t_min, item.t_max))
    ELSE IF F32Lt(t_split, item.t_min)
    THEN Append(Pending, ToDoItem(second_child_index, item.t_min, item.t_max))
    ELSE Pending \o <<ToDoItem(first_child_index, t_split, item.t_max),
                      ToDoItem(first_child_index, item.t_min, t_split)>>
\* Mutant of Pushed: the child crossed first is pushed first.
Pushed_first_below(item, first_child_index, second_child_index, t_split) ==
    IF F32Gt(t_split, item.t_max) \/ F32Le(t_split, F32Zero)
    THEN Append(Pending, ToDoItem(first_child_index, item.t_min, item.t_max))
    ELSE IF F32Lt(t_split, item.t_min)
    THEN Append(Pending, ToDoItem(second_child_index, item.t_min, item.t_max))
    ELSE Pending \o <<ToDoItem(first_child_index, item.t_min, t_split),
                      ToDoItem(second_child_index, t_split, item.t_max)>>
\* The three ways an inner node pushes its children
Pushed(item, first_child_index, second_child_index, t_split) ==
    IF F32Gt(t_split, item.t_max) \/ F32Le(t_split, F32Zero)
    THEN Append(Pending, ToDoItem(first_child_index, item.t_min, item.t_max))
    ELSE IF F32Lt(t_split, item.t_min)
    THEN Append(Pending, ToDoItem(second_child_index, item.t_min, item.t_max))
    ELSE Pending \o <<ToDoItem(second_child_index, t_split, item.t_max),
                      ToDoItem(first_child_index, item.t_min, t_split)>>

\* Which child the ray crosses first
BelowFirst(origin_position, split_position, direction) ==
    \/ F32Lt(origin_position, split_position)
    \/ F32Eq(origin_position, split_position) /\ F32Le(direction, F32Zero)

\* The inner branch after origin_position
Crossed(item, above_child_index, split_axis, split_position, origin_position) ==
    IF BelowFirst(origin_position, split_position, the_ray.direction[split_axis + 1])
    THEN Pushed(item, item.node_index + 1, above_child_index,
                F32Mul(F32Sub(split_position, origin_position),
                       F32Div(F32One, the_ray.direction[split_axis + 1])))
    ELSE Pushed(item, above_child_index, item.node_index + 1,
                F32Mul(F32Sub(split_position, origin_position),
                       F32Div(F32One, the_ray.direction[split_axis + 1])))

\* One iteration of the loop on an inner node
intersect_inner ==
    /\ phase = "traverse" /\ todo_stack # <<>>
    /\ ~Behind(TopToDo)
    /\ is_inner(nodes[TopToDo.node_index + 1])
    /\ node_lookups' = node_lookups + 1
    /\ todo_stack' = Crossed(TopToDo,
                             above_child_index_of(nodes[TopToDo.node_index + 1]),
                             split_axis_of(nodes[TopToDo.node_index + 1]),
                             split_position_of(nodes[TopToDo.node_index + 1]),
                             the_ray.origin[split_axis_of(nodes[TopToDo.node_index + 1]) + 1])
    /\ UNCHANGED <<data, options, bounding_box, nodes, linear_triangle_indices,
                   indices_below, indices_above, frames, intersect_stack_capacity,
                   the_ray, nearest_hit, phase, returned>>
    /\ UNCHANGED notKd

\* The update of nearest_hit for one triangle of a leaf
Nearer(nearest, triangle_index, tested) ==
    IF ~IsSome(tested) THEN nearest
    ELSE IF IsSome(nearest) /\ ~F32Lt(Unwrap(tested).distance, Unwrap(nearest).distance)
    THEN nearest
    ELSE Some([triangle_index |-> triangle_index, distance |-> Unwrap(tested).distance,
               u |-> Unwrap(tested).u, v |-> Unwrap(tested).v])
\* The loop over the triangles of a leaf, from the k-th on
RECURSIVE TestTriangles(_, _, _, _)
TestTriangles(r, triangle_indices, k, nearest) ==
    IF k > Len(triangle_indices) THEN nearest
    ELSE TestTriangles(r, triangle_indices, k + 1,
             Nearer(nearest, triangle_indices[k],
                    intersect_triangle(r, Corner3(data, triangle_indices[k], 1),
                                       Corner3(data, triangle_indices[k], 2),
                                       Corner3(data, triangle_indices[k], 3))))

\* &linear_triangle_indices[start_index..(start_index + triangle_count)]
LeafSlice(node) ==
    SubSeq(linear_triangle_indices, triangles_start_index_of(node) + 1,
           triangles_start_index_of(node) + triangle_count_of(node))

\* One iteration of the loop on a leaf
intersect_leaf ==
    /\ phase = "traverse" /\ todo_stack # <<>>
    /\ ~Behind(TopToDo)
    /\ ~is_inner(nodes[TopToDo.node_index + 1])
    /\ node_lookups' = node_lookups + 1
    /\ todo_stack' = Pending
    /\ nearest_hit' = TestTriangles(the_ray, LeafSlice(nodes[TopToDo.node_index + 1]), 1,
                                    nearest_hit)
    /\ UNCHANGED <<data, options, bounding_box, nodes, linear_triangle_indices,
                   indices_below, indices_above, frames, intersect_stack_capacity,
                   the_ray, phase, returned>>
    /\ UNCHANGED notKd

\* The stack is empty: the loop ends and intersect returns
intersect_return ==
    /\ phase = "traverse" /\ todo_stack = <<>>
    /\ returned' = HitOf(nearest_hit)
    /\ phase' = "returned"
    /\ UNCHANGED <<data, options, bounding_box, nodes, linear_triangle_indices,
                   indices_below, indices_above, frames, intersect_stack_capacity,
                   the_ray, todo_stack, nearest_hit, node_lookups>>
    /\ UNCHANGED notKd

(***************************************************************************)
(* Meshes, options and rays                                                *)
(***************************************************************************)
P3(x, y, z) == <<F32Dyadic(x, 2), F32Dyadic(y, 2), F32Dyadic(z, 2)>>
I3(x, y, z) == P3(4 * x, 4 * y, 4 * z)
Tri(a, b, c) == [position_indices |-> <<a, b, c>>]
MeshOf(positions, mesh_triangles) ==
    [vertex_positions |-> positions, triangles |-> mesh_triangles]

\* Three triangles that cross each other
Crossing ==
    MeshOf(<<I3(0, 2, 2), I3(0, 0, 0), I3(2, 1, 0), I3(2, 1, 1), I3(0, 2, 1),
             I3(0, 1, 1), I3(2, 0, 1), I3(0, 0, 2), I3(2, 0, 0)>>,
           <<Tri(0, 1, 2), Tri(3, 4, 5), Tri(6, 7, 8)>>)
\* Two triangles within 0 <= x <= 1 and one within 2 <= x <= 3
Apart ==
    MeshOf(<<I3(0, 0, 0), I3(1, 2, 0), I3(1, 0, 2), I3(0, 1, 1), I3(1, 2, 2),
             I3(2, 0, 0), I3(3, 2, 0), I3(3, 0, 2)>>,
           <<Tri(0, 1, 2), Tri(3, 0, 4), Tri(5, 6, 7)>>)
\* A triangle in the plane x = 2 and one that touches the plane along an edge
Wall ==
    MeshOf(<<I3(0, 0, 0), I3(2, 1, 0), I3(2, 0, 1), I3(2, 0, 0)>>,
           <<Tri(0, 1, 2), Tri(3, 1, 2)>>)
\* A long and a short triangle side by side and a short one further up in y
Slivers ==
    MeshOf(<<I3(0, 0, 0), I3(8, 0, 0), I3(8, 1, 0), I3(3, 0, 0), I3(3, 1, 0),
             I3(0, 3, 0), I3(3, 3, 0), I3(3, 4, 0)>>,
           <<Tri(0, 1, 2), Tri(0, 3, 4), Tri(5, 6, 7)>>)
Meshes == {Crossing, Apart, Wall, Slivers}

\* KDTreeOptions::default
max_leaf_size_default == 16
DefaultOptions == [max_depth |-> None, max_leaf_size |-> max_leaf_size_default]
Options ==
    {DefaultOptions}
        \cup {[max_depth |-> Some(d), max_leaf_size |-> s] :
                 d \in 0..MaxDepth, s \in 0..MaxLeafSize}

RayOf(origin, direction) == [origin |-> origin, direction |-> direction]
RayOrigins ==
    {I3(1, 1, 2), P3(-4, 2, 2), P3(8, 2, 1), P3(2, 2, 12), I3(3, 2, 0), P3(10, 2, 2)}
\* Ray::direction is a unit vector
RayDirections == {I3(0, 0, -1), I3(1, 0, 0), I3(-1, 0, 0), I3(0, 1, 0), Oblique}
Rays == {RayOf(o, d) : o \in RayOrigins, d \in RayDirections}

NextKd ==
    \/ \E d \in Meshes, o \in Options : build(d, o)
    \/ build_node_leaf
    \/ \E before_equal \in BOOLEAN : build_node_split(before_equal)
    \/ build_node_panic
    \/ build_node_above
    \/ build_node_return
    \/ build_return
    \/ \E r \in Rays : intersect(r)
    \/ intersect_break
    \/ intersect_inner
    \/ intersect_leaf
    \/ intersect_return

(***************************************************************************)
(*                       Claims about the KD tree                          *)
(***************************************************************************)
\* The distances a scan of all triangles with intersect_triangle finds for the ray
ScanDistances ==
    {Unwrap(intersect_triangle(the_ray, Corner3(data, t, 1), Corner3(data, t, 2),
                               Corner3(data, t, 3))).distance :
        t \in {s \in 0..TriangleCount(data) - 1 :
                  IsSome(intersect_triangle(the_ray, Corner3(data, s, 1),
                                            Corner3(data, s, 2), Corner3(data, s, 3)))}}

\* C1: for every mesh and every ray, LinearKDTree::intersect returns a hit exactly
\* when a scan of all triangles with intersect_triangle finds one, and the distance
\* it returns is the least distance the scan finds.
C1_IntersectMatchesScan ==
    phase = "returned" =>
        /\ IsSome(returned) <=> ScanDistances # {}
        /\ IsSome(returned) =>
               /\ Unwrap(returned).distance \in ScanDistances
               /\ \A dist \in ScanDistances : F32Le(Unwrap(returned).distance, dist)

\* The leaves below a node with the box the splits on the path leave of the box
RECURSIVE Leaves(_, _)
Leaves(node_index, box) ==
    IF is_inner(nodes[node_index + 1])
    THEN Leaves(node_index + 1,
                CutMax(box, split_axis_of(nodes[node_index + 1]),
                       split_position_of(nodes[node_index + 1])))
         \cup Leaves(above_child_index_of(nodes[node_index + 1]),
                     CutMin(box, split_axis_of(nodes[node_index + 1]),
                            split_position_of(nodes[node_index + 1])))
    ELSE {[node_index |-> node_index, box |-> box]}
Overlap(a, b) ==
    \A i \in 1..3 : F32Le(a.min[i], b.max[i]) /\ F32Le(b.min[i], a.max[i])
Lists(leaf, t) ==
    \E k \in 1..Len(LeafSlice(nodes[leaf.node_index + 1])) :
        LeafSlice(nodes[leaf.node_index + 1])[k] = t
Built == phase \in {"built", "traverse", "returned"}

\* C2: after build, every triangle of the mesh is listed in linear_triangle_indices
\* for at least one leaf whose box (the root box cut by the splits on the path to
\* the leaf) overlaps the triangle's bounding box.
C2_Coverage ==
    Built =>
        \A t \in 0..TriangleCount(data) - 1 :
            \E leaf \in Leaves(0, bounding_box) :
                Overlap(leaf.box, TriangleBox(data, t)) /\ Lists(leaf, t)

\* A tree of three levels is built in which a triangle that straddles a split is
\* listed for two leaves, and a leaf whose box overlaps the bounding box of a
\* triangle does not list it.
C2_Witness ==
    /\ phase = "built"
    /\ max_depth_recursive(nodes, 0) >= 3
    /\ \E t \in 0..TriangleCount(data) - 1 :
           /\ Cardinality({leaf \in Leaves(0, bounding_box) : Lists(leaf, t)}) >= 2
           /\ \E leaf \in Leaves(0, bounding_box) :
                  Overlap(leaf.box, TriangleBox(data, t)) /\ ~Lists(leaf, t)

\* C3: at every point of intersect, if the distance of nearest_hit is smaller than
\* the t_min of the item on top of the todo stack, every other entry of the stack
\* has a t_min that is not smaller than that distance.
C3_OrderedPruning ==
    (phase = "traverse" /\ todo_stack # <<>> /\ Behind(TopToDo)) =>
        \A k \in 1..Len(todo_stack) - 1 :
            F32Ge(todo_stack[k].t_min, Unwrap(nearest_hit).distance)

\* The nodes reached from the node at node_index through below and above links
RECURSIVE Subtree(_, _)
Subtree(node_index, fuel) ==
    IF fuel = 0 \/ node_index >= Len(nodes) \/ ~is_inner(nodes[node_index + 1])
    THEN {node_index}
    ELSE {node_index} \cup Subtree(node_index + 1, fuel - 1)
             \cup Subtree(above_child_index_of(nodes[node_index + 1]), fuel - 1)
InnerNodes == {p \in 0..Len(nodes) - 1 : is_inner(nodes[p + 1])}

\* C13: in the node vector build produces, for every inner node at index p the
\* stored above-child index a satisfies p + 1 < a < nodes.len(), and the nodes at
\* p + 1 .. a - 1 are exactly the subtree of the below child at p + 1; no inner
\* node keeps the placeholder 0.
C13_NodeLayout ==
    Built =>
        \A p \in InnerNodes :
            /\ p + 1 < above_child_index_of(nodes[p + 1])
            /\ above_child_index_of(nodes[p + 1]) < Len(nodes)
            /\ Subtree(p + 1, Len(nodes)) = (p + 1)..(above_child_index_of(nodes[p + 1]) - 1)

\* A tree is built in which an inner node other than the root has a below subtree
\* of at least three nodes and another inner node has a leaf as its below child.
C13_Witness ==
    /\ phase = "built"
    /\ \E p \in InnerNodes : p > 0 /\ above_child_index_of(nodes[p + 1]) >= p + 4
    /\ \E p \in InnerNodes : above_child_index_of(nodes[p + 1]) = p + 2

\* triangle_indices_above[..n_above] of an activation, in a state of the buffer
StashOf(above_buffer, f) ==
    SubSeq(above_buffer, f.above_start + 1, f.above_start + f.n_above)

\* C14: the first n_above entries of triangle_indices_above that the partition of
\* a node wrote are unchanged by every step taken while the node waits for its
\* below subtree, and the above child is called with exactly these entries.
C14_AboveSetPreserved ==
    [][\A k \in 1..Len(frames) :
           (phase = "build" /\ frames[k].stage = "below") =>
               /\ Len(frames') >= k
               /\ StashOf(indices_above', frames[k]) = StashOf(indices_above, frames[k])
               /\ frames'[k].stage = "above" =>
                      /\ Len(frames') = k + 1
                      /\ frames'[k + 1].is_above
                      /\ frames'[k + 1].triangle_count = frames[k].n_above
                      /\ SubSeq(indices_above', frames'[k + 1].above_start + 1,
                                frames'[k + 1].above_start + frames'[k + 1].triangle_count)
                             = StashOf(indices_above, frames[k])]_vars

\* A node inside the below subtree of a waiting node has written its own above-set
\* behind the entries the waiting node keeps for its above child.
C14_Witness ==
    /\ phase = "build"
    /\ \E k \in 1..Len(frames), j \in 1..Len(frames) :
           /\ k < j
           /\ frames[k].stage = "below" /\ frames[k].n_above >= 1
           /\ frames[j].stage = "below" /\ frames[j].n_above >= 1
           /\ frames[j].above_start >= frames[k].above_start + frames[k].n_above
           /\ StashOf(indices_above, frames[j]) # StashOf(indices_above, frames[k])

\* C15: with indices_below of length N and indices_above of length
\* (max_depth + 1) * N, every slice triangle_indices_above[n_above..], every
\* prefix [..triangle_count] and every entry written by the partition loops lies
\* within the slice it is taken from.
C15_BufferBounds ==
    phase = "build" =>
        \A k \in 1..Len(frames) :
            /\ frames[k].above_start <= Len(indices_above)
            /\ frames[k].is_above =>
                   frames[k].above_start + frames[k].triangle_count <= Len(indices_above)
            /\ ~frames[k].is_above => frames[k].triangle_count <= Len(indices_below)
            /\ frames[k].stage # "entered" =>
                   frames[k].above_start + frames[k].n_above <= Len(indices_above)

\* Inside a below subtree, a partition has written above entries that end beyond
\* the first N entries of triangle_indices_above.
C15_Witness ==
    /\ phase = "build" /\ Len(frames) >= 2
    /\ Top.stage = "below" /\ Top.above_start > 0 /\ Top.n_above >= 1
    /\ Top.above_start + Top.n_above > TriangleCount(data)

\* The triangles of a sequence of indices
Members(triangle_indices) == {triangle_indices[k] : k \in 1..Len(triangle_indices)}
NoRepeats(triangle_indices) == Cardinality(Members(triangle_indices)) = Len(triangle_indices)

\* C16: at every inner node, an active triangle is put in the below set exactly
\* when the minimum of its bounding box on the split axis is <= split_position,
\* and in the above set exactly when the maximum is > split_position.
C16_Partition ==
    [][(phase = "build" /\ frames # <<>> /\ Top.stage = "entered"
        /\ Len(frames') = Len(frames) + 1) =>
           LET axis == maximum_extent(Top.node_bounding_box)
               split == frames'[Len(frames)].split_position
               below == SubSeq(indices_below', 1, frames'[Len(frames')].triangle_count)
               above == StashOf(indices_above', frames'[Len(frames)])
           IN  /\ NoRepeats(below) /\ NoRepeats(above)
               /\ Members(below) =
                      {t \in Members(TriangleIndices(Top)) :
                           F32Le(TriangleBox(data, t).min[axis + 1], split)}
               /\ Members(above) =
                      {t \in Members(TriangleIndices(Top)) :
                           F32Gt(TriangleBox(data, t).max[axis + 1], split)}]_vars

\* A node has just been split: one of its triangles went below only and another,
\* which straddles the split, to both sides.
C16_Witness ==
    /\ phase = "build" /\ Len(frames) >= 2
    /\ Top.stage = "entered" /\ ~Top.is_above
    /\ frames[Len(frames) - 1].stage = "below"
    /\ LET below == Members(SubSeq(indices_below, 1, Top.triangle_count))
           above == Members(StashOf(indices_above, frames[Len(frames) - 1]))
       IN  below \ above # {} /\ below \cap above # {}

\* The depth below the root of the node at node_index, found from the root
RECURSIVE DepthOf(_, _, _)
DepthOf(node_index, from, depth) ==
    IF from = node_index THEN depth
    ELSE IF node_index < above_child_index_of(nodes'[from + 1])
    THEN DepthOf(node_index, from + 1, depth + 1)
    ELSE DepthOf(node_index, above_child_index_of(nodes'[from + 1]), depth + 1)

\* C17: build_node emits a leaf exactly when triangle_count <= max_leaf_size or
\* depth_remaining is 0; the leaf appends the node's triangle indices to
\* linear_triangle_indices and records their count and start.  In the tree build
\* returns, every leaf holds at most max_leaf_size triangles or lies max_depth
\* below the root.
C17_LeafRule ==
    [][/\ (phase = "build" /\ frames # <<>> /\ Top.stage = "entered") =>
              /\ (Top.triangle_count <= options.max_leaf_size \/ Top.depth_remaining = 0)
                     <=> (Len(nodes') = Len(nodes) + 1 /\ ~is_inner(nodes'[Len(nodes')]))
              /\ (Len(nodes') = Len(nodes) + 1 /\ ~is_inner(nodes'[Len(nodes')])) =>
                     /\ linear_triangle_indices' =
                            linear_triangle_indices \o TriangleIndices(Top)
                     /\ triangle_count_of(nodes'[Len(nodes')]) = Top.triangle_count
                     /\ triangles_start_index_of(nodes'[Len(nodes')])
                            = Len(linear_triangle_indices)
                     /\ frames' = Callers
       /\ (phase = "build" /\ phase' = "built") =>
              \A p \in 0..Len(nodes') - 1 :
                  ~is_inner(nodes'[p + 1]) =>
                      \/ triangle_count_of(nodes'[p + 1]) <= options.max_leaf_size
                      \/ DepthOf(p, 0, 0) = max_depth_of(options, TriangleCount(data))]_vars

\* The build has returned a tree with a leaf that holds more than max_leaf_size
\* triangles, max_depth below the root, and a leaf nearer to the root.
C17_Witness ==
    /\ phase = "built"
    /\ \E p \in 0..Len(nodes) - 1 :
           /\ ~is_inner(nodes[p + 1])
           /\ triangle_count_of(nodes[p + 1]) > options.max_leaf_size
    /\ \E p \in 0..Len(nodes) - 1 :
           /\ ~is_inner(nodes[p + 1])
           /\ triangle_count_of(nodes[p + 1]) <= options.max_leaf_size
           /\ triangle_count_of(nodes[p + 1]) >= 1

\* The distance at which the ray meets the split plane of an inner node
SplitDistance(node) ==
    F32Mul(F32Sub(split_position_of(node), the_ray.origin[split_axis_of(node) + 1]),
           F32Div(F32One, the_ray.direction[split_axis_of(node) + 1]))
\* Neither t_split > t_max, nor t_split <= 0, nor t_split < t_min
SplitInside(item, t_split) ==
    ~F32Gt(t_split, item.t_max) /\ ~F32Le(t_split, F32Zero) /\ ~F32Lt(t_split, item.t_min)
\* The origin is below the split, or on it with direction[axis] <= 0
OriginBelow(node) ==
    \/ F32Lt(the_ray.origin[split_axis_of(node) + 1], split_position_of(node))
    \/ /\ the_ray.origin[split_axis_of(node) + 1] = split_position_of(node)
       /\ F32Le(the_ray.direction[split_axis_of(node) + 1], F32Zero)
NearChild(p) == IF OriginBelow(nodes[p + 1]) THEN p + 1 ELSE above_child_index_of(nodes[p + 1])
FarChild(p) == IF OriginBelow(nodes[p + 1]) THEN above_child_index_of(nodes[p + 1]) ELSE p + 1

\* C18: when the split of an inner node is crossed inside the interval of the node,
\* the far child is pushed with (t_split, t_max) and then the near child with
\* (t_min, t_split); the near child is the below child p + 1 iff the origin is
\* below the split, or on it with direction[axis] <= 0.  Every iteration pops the
\* top of the stack and leaves the entries under it alone, so the near child and
\* what it pushes are popped before the far child.
C18_NearBeforeFar ==
    [][(phase = "traverse" /\ todo_stack # <<>>) =>
           /\ Len(todo_stack') >= Len(todo_stack) - 1
           /\ SubSeq(todo_stack', 1, Len(todo_stack) - 1) = Pending
           /\ (/\ ~Behind(TopToDo)
               /\ is_inner(nodes[TopToDo.node_index + 1])
               /\ SplitInside(TopToDo, SplitDistance(nodes[TopToDo.node_index + 1]))) =>
                  todo_stack' = Pending \o
                      <<[node_index |-> FarChild(TopToDo.node_index),
                         t_min |-> SplitDistance(nodes[TopToDo.node_index + 1]),
                         t_max |-> TopToDo.t_max],
                        [node_index |-> NearChild(TopToDo.node_index),
                         t_min |-> TopToDo.t_min,
                         t_max |-> SplitDistance(nodes[TopToDo.node_index + 1])]>>]_vars

\* Both children of an inner node are on the stack, the above child on top as the
\* near one, with the finite distance of the split between their intervals, under
\* them an entry pushed earlier.
C18_Witness ==
    /\ phase = "traverse" /\ Len(todo_stack) >= 3
    /\ todo_stack[Len(todo_stack) - 1].node_index >= 1
    /\ is_inner(nodes[todo_stack[Len(todo_stack) - 1].node_index])
    /\ TopToDo.node_index =
           above_child_index_of(nodes[todo_stack[Len(todo_stack) - 1].node_index])
    /\ TopToDo.t_max = todo_stack[Len(todo_stack) - 1].t_min
    /\ ~IsNaN(TopToDo.t_max) /\ ~IsInf(TopToDo.t_max)

\* C19: during intersect the todo stack never holds more than
\* intersect_stack_capacity = round(0.65 * d) entries, d the depth of the tree as
\* max_depth_recursive counts it.
C19_StackWithinCapacity ==
    phase = "traverse" => Len(todo_stack) <= intersect_stack_capacity

(***************************************************************************)
(*                 The depth of the shading recursion                      *)
(***************************************************************************)
\* C20: cast_ray called with depth > max_recursion_depth returns black without
\* tracing the scene or recursing; every call made from get_color has the depth of
\* its caller plus one; so no call has a depth above max_recursion_depth + 1, and
\* a camera ray causes at most 2^(max_recursion_depth + 2) - 1 calls of cast_ray.
C20_RecursionBounded ==
    IsSome(cast) =>
        LET calls == Unwrap(cast).calls
        IN  /\ calls[1].depth = 0
            /\ Len(calls) <= 2 ^ (scene.max_recursion_depth + 2) - 1
            /\ \A i \in 1..Len(calls) :
                   /\ calls[i].depth <= scene.max_recursion_depth + 1
                   /\ calls[i].traced <=> calls[i].depth <= scene.max_recursion_depth
                   /\ i > 1 => /\ calls[i].depth >= 1
                               /\ calls[i].depth <= calls[i - 1].depth + 1
                               /\ ~calls[i - 1].traced => calls[i].depth <= calls[i - 1].depth

\* Between two mirrors that face each other, a camera ray has gone down to a call
\* at depth max_recursion_depth + 1, which was cut off.
C20_Witness ==
    /\ IsSome(cast)
    /\ scene = MirrorScene
    /\ Len(Unwrap(cast).calls) = scene.max_recursion_depth + 2
    /\ ~Unwrap(cast).calls[Len(Unwrap(cast).calls)].traced

(***************************************************************************)
(* asset_loader.rs: the loader is kept in a once_cell::sync::OnceCell.     *)
(* OnceCell::set is atomic: of all calls, from whatever thread, exactly    *)
(* the one that finds the cell empty fills it; the others get their value  *)
(* back as Err.  A panic unwinds the calling thread only and does not      *)
(* touch the cell.                                                         *)
(***************************************************************************)
MaxThreads == 2
MaxCalls == 4

Threads == 1..MaxThreads
Loaders == {"file_loader", "memory_loader"}

Returned(v) == [tag |-> "Returned", value |-> v]
Panicked(msg) == [tag |-> "Panicked", value |-> msg]

\* OnceCell::set: Ok(()) and the cell filled, or Err(value) and the cell as it was
OnceCellSet(cell, value) ==
    IF cell = None THEN [cell |-> Some(value), result |-> "Ok"]
                   ELSE [cell |-> cell, result |-> "Err"]

\* .ok().expect("Instance already set")
ExpectSet(result) ==
    IF result = "Ok" THEN Returned("unit") ELSE Panicked("Instance already set")

\* INSTANCE.get().expect("Instance not set")
ExpectGet(cell) ==
    IF IsSome(cell) THEN Returned(Unwrap(cell)) ELSE Panicked("Instance not set")

Logged(t, name, l, out) == [thread |-> t, op |-> name, loader |-> l, outcome |-> out]

set_instance_replace(t, instance) ==
    /\ Len(call_log) < MaxCalls
    /\ instance_cell' = Some(instance)
    /\ call_log' = Append(call_log, Logged(t, "set_instance", instance,
                                           ExpectSet(OnceCellSet(instance_cell, instance).result)))
    /\ UNCHANGED notAl

set_instance(t, instance) ==
    /\ Len(call_log) < MaxCalls
    /\ instance_cell' = OnceCellSet(instance_cell, instance).cell
    /\ call_log' = Append(call_log, Logged(t, "set_instance", instance,
                                           ExpectSet(OnceCellSet(instance_cell, instance).result)))
    /\ UNCHANGED notAl

get_instance(t) ==
    /\ Len(call_log) < MaxCalls
    /\ call_log' = Append(call_log, Logged(t, "get_instance", "", ExpectGet(instance_cell)))
    /\ UNCHANGED instance_cell
    /\ UNCHANGED notAl

NextAl ==
    \/ \E t \in Threads, l \in Loaders : set_instance(t, l)
    \/ \E t \in Threads : get_instance(t)

SetCalls == {i \in 1..Len(call_log) : call_log[i].op = "set_instance"}
GetCalls == {i \in 1..Len(call_log) : call_log[i].op = "get_instance"}
FirstSet == CHOOSE i \in SetCalls : \A j \in SetCalls : i <= j

\* C11: the loader is installed at most once: the first set_instance installs its
\* loader, every later one panics with "Instance already set" and leaves the cell
\* as it is, a get_instance before the first set_instance panics with "Instance
\* not set", and every get_instance after it returns the loader installed first.
C11_SetOnce ==
    /\ SetCalls = {} =>
           /\ instance_cell = None
           /\ \A i \in GetCalls : call_log[i].outcome = Panicked("Instance not set")
    /\ SetCalls # {} =>
           /\ instance_cell = Some(call_log[FirstSet].loader)
           /\ call_log[FirstSet].outcome = Returned("unit")
           /\ \A i \in SetCalls \ {FirstSet} :
                  call_log[i].outcome = Panicked("Instance already set")
           /\ \A i \in GetCalls :
                  call_log[i].outcome =
                      IF i < FirstSet THEN Panicked("Instance not set")
                                      ELSE Returned(call_log[FirstSet].loader)

\* Two threads have tried to install different loaders, and get_instance has been
\* called before the first and after the second attempt.
C11_Witness ==
    /\ Len(call_log) = 4
    /\ call_log[1].op = "get_instance"
    /\ call_log[2].op = "set_instance" /\ call_log[3].op = "set_instance"
    /\ call_log[2].thread # call_log[3].thread
    /\ call_log[2].loader # call_log[3].loader
    /\ call_log[4].op = "get_instance"

(***************************************************************************)
(* image.rs: RgbImage.  usize arithmetic is kept at its width, scaled down *)
(* to UsizeBits bits: a product that does not fit panics in a build with   *)
(* overflow checks and wraps in one without.                               *)
(***************************************************************************)
UsizeBits == 5
MaxWidth == 4
MaxHeight == 3
MaxPuts == 2

UsizeModulus == 2 ^ UsizeBits
Fits(n) == n < UsizeModulus
Wrap(n) == n % UsizeModulus

Pixels == {<<255, 0, 0>>, <<1, 2, 3>>}

\* w * h * 3, as (w * h) * 3
DataLength(w, h) == Wrap(Wrap(w * h) * 3)
DataLengthFits(w, h) == Fits(w * h) /\ Fits(Wrap(w * h) * 3)

\* RgbImage::new: vec![0; w * h * 3]
new(w, h) ==
    /\ rgb_image = None /\ rgb_call = <<>>
    /\ rgb_before' = rgb_image
    /\ IF rgb_overflow_checks /\ ~DataLengthFits(w, h)
       THEN /\ rgb_call' = [op |-> "new", x |-> w, y |-> h, color |-> <<>>,
                            outcome |-> Panicked("attempt to multiply with overflow")]
            /\ UNCHANGED rgb_image
       ELSE /\ rgb_call' = [op |-> "new", x |-> w, y |-> h, color |-> <<>>,
                            outcome |-> Returned("unit")]
            /\ rgb_image' = Some([width |-> w, height |-> h,
                                  data |-> [i \in 1..DataLength(w, h) |-> 0]])
    /\ UNCHANGED <<rgb_puts, rgb_overflow_checks>>
    /\ UNCHANGED notIm

\* (y * self.width + x) * 3
pixel_index(image, x, y) == Wrap(Wrap(Wrap(y * image.width) + x) * 3)
PixelIndexFits(image, x, y) ==
    /\ Fits(y * image.width)
    /\ Fits(Wrap(y * image.width) + x)
    /\ Fits(Wrap(Wrap(y * image.width) + x) * 3)

\* index, index + 1, index + 2: how many of the three accesses succeed, in order
Reachable(image, index, checks) ==
    IF index >= Len(image.data) THEN 0
    ELSE IF (checks /\ ~Fits(index + 1)) \/ Wrap(index + 1) >= Len(image.data) THEN 1
    ELSE IF (checks /\ ~Fits(index + 2)) \/ Wrap(index + 2) >= Len(image.data) THEN 2
    ELSE 3

\* self.data[index + k] = color.k for the first n of the three channels
StoreChannels(d, index, color, n) ==
    [i \in 1..Len(d) |->
        IF \E k \in 0..n - 1 : i = Wrap(index + k) + 1
        THEN color[(CHOOSE k \in 0..n - 1 : i = Wrap(index + k) + 1) + 1]
        ELSE d[i]]

Callable == IsSome(rgb_image) /\ rgb_call.outcome.tag = "Returned"

put_pixel(x, y, color) ==
    /\ Callable /\ rgb_puts < MaxPuts
    /\ rgb_before' = rgb_image
    /\ rgb_puts' = rgb_puts + 1
    /\ LET image == Unwrap(rgb_image)
           index == pixel_index(image, x, y)
       IN  IF rgb_overflow_checks /\ ~PixelIndexFits(image, x, y)
           THEN /\ rgb_call' = [op |-> "put_pixel", x |-> x, y |-> y, color |-> color,
                                outcome |-> Panicked("attempt to multiply with overflow")]
                /\ UNCHANGED rgb_image
           ELSE LET n == Reachable(image, index, rgb_overflow_checks)
                IN  /\ rgb_image' = Some([image EXCEPT
                                            !.data = StoreChannels(@, index, color, n)])
                    /\ rgb_call' = [op |-> "put_pixel", x |-> x, y |-> y, color |-> color,
                                    outcome |-> IF n = 3 THEN Returned("unit")
                                                ELSE Panicked("index out of bounds")]
    /\ UNCHANGED rgb_overflow_checks
    /\ UNCHANGED notIm

\* What get_pixel(x, y) gives on an image
GetPixel(image, x, y, checks) ==
    LET index == pixel_index(image, x, y)
    IN  IF checks /\ ~PixelIndexFits(image, x, y)
        THEN Panicked("attempt to multiply with overflow")
        ELSE IF Reachable(image, index, checks) < 3
        THEN Panicked("index out of bounds")
        ELSE Returned(<<image.data[index + 1], image.data[Wrap(index + 1) + 1],
                        image.data[Wrap(index + 2) + 1]>>)

get_pixel(x, y) ==
    /\ Callable
    /\ rgb_before' = rgb_image
    /\ rgb_call' = [op |-> "get_pixel", x |-> x, y |-> y, color |-> <<>>,
                    outcome |-> GetPixel(Unwrap(rgb_image), x, y, rgb_overflow_checks)]
    /\ UNCHANGED <<rgb_image, rgb_puts, rgb_overflow_checks>>
    /\ UNCHANGED notIm

InitIm ==
    /\ rgb_image = None /\ rgb_before = None /\ rgb_call = <<>> /\ rgb_puts = 0
    /\ rgb_overflow_checks \in BOOLEAN

NextIm ==
    \/ \E w \in 1..MaxWidth, h \in 1..MaxHeight : new(w, h)
    \/ \E x \in 0..MaxWidth, y \in 0..MaxHeight, c \in Pixels : put_pixel(x, y, c)
    \/ \E x \in 0..MaxWidth, y \in 0..MaxHeight : get_pixel(x, y)

\* The byte at data[i] (0-based), -1 where the vector has no such element
ByteAt(image, i) == IF i < Len(image.data) THEN image.data[i + 1] ELSE -1

\* C12: for an RgbImage of width w and height h and x < w, y < h: after
\* put_pixel(x, y, c), get_pixel(x, y) returns c, the bytes of c are at
\* data[3 * (y * w + x)] and the two bytes after it, and every other pixel of the
\* image is as it was.
C12_PutThenGet ==
    (/\ IsSome(rgb_image) /\ rgb_call.op = "put_pixel"
     /\ rgb_call.x < Unwrap(rgb_image).width /\ rgb_call.y < Unwrap(rgb_image).height) =>
        LET image == Unwrap(rgb_image)
            before == Unwrap(rgb_before)
            at == 3 * (rgb_call.y * image.width + rgb_call.x)
        IN  /\ rgb_call.outcome = Returned("unit")
            /\ GetPixel(image, rgb_call.x, rgb_call.y, rgb_overflow_checks)
                   = Returned(rgb_call.color)
            /\ <<ByteAt(image, at), ByteAt(image, at + 1), ByteAt(image, at + 2)>>
                   = rgb_call.color
            /\ \A x \in 0..image.width - 1, y \in 0..image.height - 1 :
                   <<x, y>> # <<rgb_call.x, rgb_call.y>> =>
                       GetPixel(image, x, y, rgb_overflow_checks)
                           = GetPixel(before, x, y, rgb_overflow_checks)

(***************************************************************************)
(*                  Functions that only compute                            *)
(***************************************************************************)
MaxObjects == 3

\* What Object::intersect gives for each object of the scene: None or a distance
Distances == {F32Half, F32One, F32Two}
Intersections ==
    UNION {[1..n -> {None} \cup {Some(d) : d \in Distances}] : n \in 0..MaxObjects}

\* filter_map(|obj| obj.intersect(ray)): the hits with their objects, in the order
\* of scene.objects
FilterMap(results) ==
    LET indexed == [o \in 1..Len(results) |-> [object |-> o, found |-> results[o]]]
        IsHit(e) == IsSome(e.found)
        kept == SelectSeq(indexed, IsHit)
    IN  [k \in 1..Len(kept) |-> Sight(kept[k].object, Unwrap(kept[k].found), kept[k].object)]

\* Scene::trace on a ray for which the objects give these results
Trace ==
    /\ fn_call # <<>> /\ fn_call.fn = "trace" /\ fn_result = None
    /\ fn_result' = Some(trace(Meets(FilterMap(fn_call.args), 0)))
    /\ UNCHANGED fn_call
    /\ UNCHANGED notFn

TraceCalls == {[fn |-> "trace", args |-> results] : results \in Intersections}

\* C21: Scene::trace returns None exactly when no object's intersect returns a
\* hit; otherwise it returns an object with its hit such that no other object's
\* hit is strictly nearer, and among the objects tied at the least distance the one
\* that comes first in scene.objects.
C21_TraceNearestFirst ==
    (fn_call # <<>> /\ fn_call.fn = "trace" /\ IsSome(fn_result)) =>
        LET results == fn_call.args
            got == Unwrap(fn_result)
        IN  /\ got = None <=> \A o \in 1..Len(results) : results[o] = None
            /\ IsSome(got) =>
                   /\ results[Unwrap(got).object] = Some(Unwrap(got).distance)
                   /\ \A o \in 1..Len(results) :
                          IsSome(results[o]) =>
                              /\ ~F32Lt(Unwrap(results[o]), Unwrap(got).distance)
                              /\ Unwrap(results[o]) = Unwrap(got).distance =>
                                     Unwrap(got).object <= o

\* Three objects are hit, the second and the third at the same, least distance:
\* trace has returned the second.
C21_Witness ==
    /\ fn_call # <<>> /\ fn_call.fn = "trace" /\ IsSome(fn_result)
    /\ fn_call.args = <<Some(F32Two), Some(F32Half), Some(F32Half)>>
    /\ Unwrap(Unwrap(fn_result)).object = 2

\* AABB::maximum_extent on a box
MaximumExtent ==
    /\ fn_call # <<>> /\ fn_call.fn = "maximum_extent" /\ fn_result = None
    /\ fn_result' = Some(maximum_extent(fn_call.args))
    /\ UNCHANGED fn_call
    /\ UNCHANGED notFn

MaxCorner == 2
Corners == {F32FromInt(n) : n \in 0..MaxCorner}
Boxes == {AABB(<<F32Zero, F32Zero, F32Zero>>, <<x, y, z>>) : x \in Corners, y \in Corners, z \in Corners}
MaximumExtentCalls == {[fn |-> "maximum_extent", args |-> b] : b \in Boxes}

\* C23: maximum_extent returns an axis whose extent max - min is the largest of the
\* three, and among the axes that tie for the largest extent it returns the first
\* in the order x, y, z.
C23_LongestAxisXFirst ==
    (fn_call # <<>> /\ fn_call.fn = "maximum_extent" /\ IsSome(fn_result)) =>
        LET b == fn_call.args
            extent == V3Sub(b.max, b.min)
            axis == Unwrap(fn_result)
        IN  /\ \A i \in 1..3 : F32Ge(extent[axis + 1], extent[i])
            /\ \A i \in 1..3 : extent[i] = extent[axis + 1] => axis + 1 <= i

\* C23 (amended): maximum_extent returns an axis whose extent is the largest of the
\* three, and among the axes that tie for the largest extent it returns the last in
\* the order x, y, z (y on an x/y tie, z on an x/z, y/z or three-way tie).
C23_LongestAxisZFirst ==
    (fn_call # <<>> /\ fn_call.fn = "maximum_extent" /\ IsSome(fn_result)) =>
        LET b == fn_call.args
            extent == V3Sub(b.max, b.min)
            axis == Unwrap(fn_result)
        IN  /\ \A i \in 1..3 : F32Ge(extent[axis + 1], extent[i])
            /\ \A i \in 1..3 : extent[i] = extent[axis + 1] => axis + 1 >= i

\* A box as long in x as in y and flat in z: maximum_extent has returned y.
C23_Witness ==
    /\ fn_call # <<>> /\ fn_call.fn = "maximum_extent"
    /\ fn_call.args.max = <<F32One, F32One, F32Zero>>
    /\ fn_result = Some(1)

\* Sphere::intersect from thickness_half on: the two roots and the choice between
\* them; the result is the distance of the hit
NearerRoot(t0, t1) ==
    IF F32Lt(t0, F32Zero) /\ F32Lt(t1, F32Zero) THEN None
    ELSE Some(IF F32Lt(t0, F32Zero) THEN t1
              ELSE IF F32Lt(t1, F32Zero) THEN t0
              ELSE IF F32Lt(t0, t1) THEN t0 ELSE t1)

\* Sphere::intersect after adjacent: the test of the distance between the line and
\* the centre
ThroughSphere(adjacent, distance_squared, radius_squared) ==
    IF F32Gt(distance_squared, radius_squared) THEN None
    ELSE LET thickness_half == F32Sqrt(F32Sub(radius_squared, distance_squared))
         IN  NearerRoot(F32Sub(adjacent, thickness_half), F32Add(adjacent, thickness_half))

\* Sphere::intersect, as the distance of the hit it gives
sphere_intersect(sphere, ray) ==
    LET to_center == V3Sub(sphere.center, ray.origin)
        adjacent == V3Dot(to_center, ray.direction)
    IN  IF F32Lt(adjacent, F32Zero) THEN None
        ELSE ThroughSphere(adjacent,
                           F32Sub(V3Dot(to_center, to_center), F32Mul(adjacent, adjacent)),
                           F32Mul(sphere.radius, sphere.radius))

SphereIntersect ==
    /\ fn_call # <<>> /\ fn_call.fn = "Sphere::intersect" /\ fn_result = None
    /\ fn_result' = Some(sphere_intersect(fn_call.args.sphere, fn_call.args.ray))
    /\ UNCHANGED fn_call
    /\ UNCHANGED notFn

MaxRadius == 2
MaxOrigin == 3
Spheres ==
    {[center |-> <<F32Zero, F32Zero, F32Zero>>, radius |-> F32FromInt(r)] : r \in 1..MaxRadius}
Coordinate(n) == IF n < 0 THEN F32Neg(F32FromInt(0 - n)) ELSE F32FromInt(n)
SphereRays ==
    {[origin |-> <<Coordinate(x), Coordinate(y), F32Zero>>, direction |-> d] :
        x \in (0 - MaxOrigin)..MaxOrigin, y \in {0, 1},
        d \in {<<F32One, F32Zero, F32Zero>>, <<F32Neg(F32One), F32Zero, F32Zero>>,
               <<F32Zero, F32One, F32Zero>>}}
SphereIntersectCalls ==
    {[fn |-> "Sphere::intersect", args |-> [sphere |-> sp, ray |-> ry]] :
        sp \in Spheres, ry \in SphereRays}

\* The line of the ray and the sphere: the squared distance between the line and
\* the centre, and the two roots t0 <= t1 when the line meets the sphere
LineDistanceSquared(sphere, ray) ==
    LET to_center == V3Sub(sphere.center, ray.origin)
        adjacent == V3Dot(to_center, ray.direction)
    IN  F32Sub(V3Dot(to_center, to_center), F32Mul(adjacent, adjacent))
LineMisses(sphere, ray) ==
    F32Gt(LineDistanceSquared(sphere, ray), F32Mul(sphere.radius, sphere.radius))
Root(sphere, ray, sign) ==
    LET adjacent == V3Dot(V3Sub(sphere.center, ray.origin), ray.direction)
        thickness_half == F32Sqrt(F32Sub(F32Mul(sphere.radius, sphere.radius),
                                         LineDistanceSquared(sphere, ray)))
    IN  IF sign < 0 THEN F32Sub(adjacent, thickness_half)
        ELSE F32Add(adjacent, thickness_half)

\* C24: Sphere::intersect gives a miss only when the line of the ray misses the
\* sphere or both roots are negative; when a root is non-negative it gives a hit at
\* the nearer non-negative root, also for an origin inside the sphere with the
\* direction pointing away from the centre.
C24_NearerNonNegativeRoot ==
    (fn_call # <<>> /\ fn_call.fn = "Sphere::intersect" /\ IsSome(fn_result)) =>
        LET sphere == fn_call.args.sphere
            ray == fn_call.args.ray
            got == Unwrap(fn_result)
            t0 == Root(sphere, ray, -1)
            t1 == Root(sphere, ray, 1)
        IN  IF LineMisses(sphere, ray) \/ F32Lt(t1, F32Zero) THEN got = None
            ELSE got = Some(IF F32Ge(t0, F32Zero) THEN t0 ELSE t1)

\* What the accessors of a node give
Accessors(node) ==
    [is_inner |-> is_inner(node),
     triangle_count |-> triangle_count_of(node),
     triangles_start_index |-> triangles_start_index_of(node),
     above_child_index |-> above_child_index_of(node),
     split_axis |-> split_axis_of(node),
     split_position |-> split_position_of(node)]

\* LinearKDTreeNode::new_leaf
NewLeaf ==
    /\ fn_call # <<>> /\ fn_call.fn = "new_leaf" /\ fn_result = None
    /\ fn_result' = Some(Accessors(new_leaf(fn_call.args[1], fn_call.args[2])))
    /\ UNCHANGED fn_call
    /\ UNCHANGED notFn

\* LinearKDTreeNode::new_inner
NewInner ==
    /\ fn_call # <<>> /\ fn_call.fn = "new_inner" /\ fn_result = None
    /\ fn_result' =
           Some(Accessors(new_inner(fn_call.args[1], fn_call.args[2], fn_call.args[3])))
    /\ UNCHANGED fn_call
    /\ UNCHANGED notFn

\* new_inner followed by set_above_child_index with the fourth argument
SetAboveChildIndex ==
    /\ fn_call # <<>> /\ fn_call.fn = "set_above_child_index" /\ fn_result = None
    /\ fn_result' =
           Some(Accessors(set_above_child_index(
                    new_inner(fn_call.args[1], fn_call.args[2], fn_call.args[3]),
                    fn_call.args[4])))
    /\ UNCHANGED fn_call
    /\ UNCHANGED notFn

\* The values that fit the 30 bits
Limit30 == 2^30
\* u32 values: small ones, the largest whose packed field this model can hold, and
\* the first ones beyond 30 bits
MaxSmall == 2
PackedValues == (0..MaxSmall) \cup {2^29 - 1, Limit30, Limit30 + 1}
SplitPositions == {F32Zero, F32Half, F32Neg(F32Two)}
NodeCalls ==
    {[fn |-> "new_leaf", args |-> <<c, st>>] : c \in PackedValues, st \in {0, 7}}
        \cup {[fn |-> "new_inner", args |-> <<a, axis, sp>>] :
                 a \in PackedValues, axis \in 0..2, sp \in SplitPositions}
        \cup {[fn |-> "set_above_child_index", args |-> <<a, axis, sp, a2>>] :
                 a \in 0..MaxSmall, axis \in 0..2, sp \in {F32Half}, a2 \in PackedValues}

\* The round trip of the fields for the values that fit
RoundTrip ==
    /\ fn_call.fn = "new_leaf" /\ fn_call.args[1] < Limit30 =>
           /\ ~Unwrap(fn_result).is_inner
           /\ Unwrap(fn_result).triangle_count = fn_call.args[1]
           /\ Unwrap(fn_result).triangles_start_index = fn_call.args[2]
    /\ fn_call.fn = "new_inner" /\ fn_call.args[1] < Limit30 =>
           /\ Unwrap(fn_result).is_inner
           /\ Unwrap(fn_result).above_child_index = fn_call.args[1]
           /\ Unwrap(fn_result).split_axis = fn_call.args[2]
           /\ Unwrap(fn_result).split_position = fn_call.args[3]
    /\ fn_call.fn = "set_above_child_index" /\ fn_call.args[4] < Limit30 =>
           /\ Unwrap(fn_result).is_inner
           /\ Unwrap(fn_result).above_child_index = fn_call.args[4]
           /\ Unwrap(fn_result).split_axis = fn_call.args[2]
           /\ Unwrap(fn_result).split_position = fn_call.args[3]
\* The field that is packed into the upper 30 bits by the call
PackedArgument ==
    IF fn_call.fn = "set_above_child_index" THEN fn_call.args[4] ELSE fn_call.args[1]
IsNodeCall ==
    fn_call # <<>> /\ fn_call.fn \in {"new_leaf", "new_inner", "set_above_child_index"}

\* C30: the packed node encoding gives back what was put in for every count, start
\* and above-child index below 2^30 and every axis, set_above_child_index changes
\* the above-child index only, and a value of 2^30 or more is rejected: no node is
\* made of it.
C30_RoundTripOrRejected ==
    (IsNodeCall /\ IsSome(fn_result)) =>
        /\ RoundTrip
        /\ PackedArgument < Limit30

InitFn ==
    /\ \/ fn_call \in TraceCalls
       \/ fn_call \in MaximumExtentCalls
       \/ fn_call \in SphereIntersectCalls
       \/ fn_call \in NodeCalls
    /\ fn_result = None
NextFn ==
    \/ Trace
    \/ MaximumExtent
    \/ SphereIntersect
    \/ NewLeaf
    \/ NewInner
    \/ SetAboveChildIndex

(***************************************************************************)
(*                  Rays and their debug counters                          *)
(***************************************************************************)
MaxRays == 4
MaxLookups == 2

\* Rc::new(RefCell::new(RayDebugData { kd_tree_lookups: 0 })): a new counter on the
\* heap; the result is the counters after it, the new one being the last
NewDebugData(datas) == Append(datas, 0)

\* The rays Renderer::cast_ray is called with, in world space
WorldRays == {"from_screen_coordinates", "create_reflection", "create_transmission"}
\* The rays Scene::trace is called with
TracedRays == WorldRays \cup {"shadow_ray"}

Made(kind, from, counter) == [made_by |-> kind, parent |-> from, debug_data |-> counter]

\* Ray::new(origin, direction) called to make a ray of this kind out of this parent
RayNew(kind, from) ==
    /\ debug_datas' = NewDebugData(debug_datas)
    /\ ray_pool' = Append(ray_pool, Made(kind, from, Len(debug_datas) + 1))

\* Ray::from_screen_coordinates: the camera ray of a pixel
MakeCameraRay ==
    /\ Len(ray_pool) < MaxRays
    /\ RayNew("from_screen_coordinates", 0)
    /\ UNCHANGED notRy

\* Ray::transform: the object-space ray Object::intersect makes of a traced ray
TransformRay(r) ==
    /\ Len(ray_pool) < MaxRays
    /\ ray_pool[r].made_by \in TracedRays
    /\ ray_pool' = Append(ray_pool, Made("transform", r, ray_pool[r].debug_data))
    /\ UNCHANGED debug_datas
    /\ UNCHANGED notRy

\* Ray::create_reflection, called by get_color for the hit of a ray being cast
ReflectRay(r) ==
    /\ Len(ray_pool) < MaxRays
    /\ ray_pool[r].made_by \in WorldRays
    /\ RayNew("create_reflection", r)
    /\ UNCHANGED notRy

\* Ray::create_transmission when it gives Some ray (no total internal reflection)
TransmitRay(r) ==
    /\ Len(ray_pool) < MaxRays
    /\ ray_pool[r].made_by \in WorldRays
    /\ RayNew("create_transmission", r)
    /\ UNCHANGED notRy

\* The shadow ray shade_diffuse makes for one light at the hit of a ray being cast
ShadowRay(r) ==
    /\ Len(ray_pool) < MaxRays
    /\ ray_pool[r].made_by \in WorldRays
    /\ RayNew("shadow_ray", r)
    /\ UNCHANGED notRy

\* The end of Mesh::intersect with debug set, on an object-space ray: the lookups
\* of the traversal are added to the counter the ray points to
AddLookups(r, lookups) ==
    /\ ray_pool[r].made_by = "transform"
    /\ debug_datas[ray_pool[r].debug_data] + lookups <= MaxLookups
    /\ debug_datas' = [debug_datas EXCEPT ![ray_pool[r].debug_data] = @ + lookups]
    /\ UNCHANGED ray_pool
    /\ UNCHANGED notRy

InitRy == debug_datas = <<>> /\ ray_pool = <<>>
NextRy ==
    \/ MakeCameraRay
    \/ \E r \in 1..Len(ray_pool) : TransformRay(r)
    \/ \E r \in 1..Len(ray_pool) : ReflectRay(r)
    \/ \E r \in 1..Len(ray_pool) : TransmitRay(r)
    \/ \E r \in 1..Len(ray_pool) : ShadowRay(r)
    \/ \E r \in 1..Len(ray_pool), lookups \in 1..MaxLookups : AddLookups(r, lookups)

\* The camera ray a ray descends from
RECURSIVE CameraRayOf(_)
CameraRayOf(r) == IF ray_pool[r].parent = 0 THEN r ELSE CameraRayOf(ray_pool[r].parent)

\* C22: every ray derived from a camera ray (by transform, create_reflection,
\* create_transmission or as a shadow ray of shade_diffuse) points to the same
\* RayDebugData as that camera ray, so its KD-tree lookups are added there.
C22_SharedDebugData ==
    \A r \in 1..Len(ray_pool) :
        ray_pool[r].debug_data = ray_pool[CameraRayOf(r)].debug_data

(***************************************************************************)
(*                     Claims about shadows                                *)
(***************************************************************************)
\* Whether light i reaches a surface point: its shadow ray hits nothing, or every
\* object it hits is farther than the light (never so for a directional light)
Reaches(light_at) ==
    \/ light_at.shadow.sees = <<>>
    \/ /\ IsSome(light_at.distance_at)
       /\ \A k \in 1..Len(light_at.shadow.sees) :
              F32Gt(light_at.shadow.sees[k].distance, Unwrap(light_at.distance_at))

\* The ambient term and, in the order of scene.lights, the Lambert term of every
\* light up to light n that reaches the surface point
RECURSIVE LitSum(_, _, _, _)
LitSum(sc, material, hit, n) ==
    IF n = 0 THEN ColorMul(material.color, sc.ambient_light_color)
    ELSE IF Reaches(hit.lights[n])
    THEN ColorAdd(LitSum(sc, material, hit, n - 1),
             ColorScale(
                 ColorScale(ColorMul(material.color, sc.lights[n].color),
                            F32Mul(F32Max(V3Dot(hit.normal, hit.lights[n].to_light), F32Zero),
                                   hit.lights[n].intensity_at)),
                 F32Div(material.albedo, F32Pi)))
    ELSE LitSum(sc, material, hit, n - 1)

\* The surface point the last camera ray was shaded at, and its material
ShadedHit == scene.surfaces[Unwrap(Unwrap(cast).shaded).surface]
ShadedMaterial ==
    scene.materials[scene.objects[Unwrap(Unwrap(cast).shaded).object].material_index]

\* C25: the colour shade_diffuse returns is the clamped sum of the ambient term and
\* the terms of exactly those lights whose shadow ray hits nothing or hits nothing
\* nearer than or at light.distance_at(hit.point); a directional light is hidden by
\* any hit of its shadow ray, a point light is not hidden by an object beyond it, and
\* a hidden light adds nothing.
C25_LightsThatReach ==
    (IsSome(cast) /\ IsSome(Unwrap(cast).shaded)) =>
        Unwrap(Unwrap(cast).shaded).diffuse_color
            = ColorClamp(LitSum(scene, ShadedMaterial, ShadedHit, Len(scene.lights)))

\* A surface point has been shaded whose directional light is hidden by an object and
\* whose point light is nearer than the object its shadow ray hits: only the point
\* light is added to the ambient term.
C25_Witness ==
    /\ IsSome(cast) /\ IsSome(Unwrap(cast).shaded)
    /\ Len(scene.lights) = 2
    /\ ~IsSome(ShadedHit.lights[1].distance_at) /\ ShadedHit.lights[1].shadow.sees # <<>>
    /\ IsSome(ShadedHit.lights[2].distance_at) /\ ShadedHit.lights[2].shadow.sees # <<>>
    /\ ~Reaches(ShadedHit.lights[1]) /\ Reaches(ShadedHit.lights[2])
    /\ Unwrap(Unwrap(cast).shaded).diffuse_color
           # ColorClamp(ColorMul(ShadedMaterial.color, scene.ambient_light_color))

(***************************************************************************)
(*                  Further claims about the KD tree                       *)
(***************************************************************************)
NotInverted(box) == \A i \in 1..3 : F32Le(box.min[i], box.max[i])

\* C26: every bounding box build_node is called with has min[i] <= max[i] on all
\* three axes, and the split position of every inner node lies within its node's
\* box on the split axis.
C26_BoxesNotInverted ==
    \A k \in 1..Len(frames) :
        /\ NotInverted(frames[k].node_bounding_box)
        /\ frames[k].stage # "entered" =>
               /\ F32Le(frames[k].node_bounding_box.min[frames[k].split_axis + 1],
                        frames[k].split_position)
               /\ F32Le(frames[k].split_position,
                        frames[k].node_bounding_box.max[frames[k].split_axis + 1])

IsLeafNode(node) == ~is_inner(node)
\* The leaves of the tree in the order of the node vector
LeafNodes == SelectSeq(nodes, IsLeafNode)

\* C27: in a built tree the leaves' (start, count) ranges, taken in the order of the
\* node vector, tile linear_triangle_indices: the first starts at 0, each next one
\* starts where the one before ends, the last ends at the length of the vector, and
\* every value stored in the vector is an index of a triangle of the mesh.
C27_LeavesTile ==
    Built =>
        /\ LeafNodes # <<>>
        /\ triangles_start_index_of(LeafNodes[1]) = 0
        /\ \A j \in 1..Len(LeafNodes) - 1 :
               triangles_start_index_of(LeafNodes[j + 1])
                   = triangles_start_index_of(LeafNodes[j]) + triangle_count_of(LeafNodes[j])
        /\ triangles_start_index_of(LeafNodes[Len(LeafNodes)])
               + triangle_count_of(LeafNodes[Len(LeafNodes)]) = Len(linear_triangle_indices)
        /\ \A j \in 1..Len(LeafNodes) :
               triangles_start_index_of(LeafNodes[j]) + triangle_count_of(LeafNodes[j])
                   <= Len(linear_triangle_indices)
        /\ \A k \in 1..Len(linear_triangle_indices) :
               linear_triangle_indices[k] \in 0..TriangleCount(data) - 1

\* A built tree with at least three leaves, one of them empty, in which a triangle
\* is listed by two leaves.
C27_Witness ==
    /\ Built
    /\ Len(LeafNodes) >= 3
    /\ \E j \in 1..Len(LeafNodes) : triangle_count_of(LeafNodes[j]) = 0
    /\ Len(linear_triangle_indices) > TriangleCount(data)

(***************************************************************************)
(*                  Further claims about the OBJ parser                    *)
(***************************************************************************)
\* A triangle one of whose corners carries an index that wrapped below zero
Wrapped(t) ==
    \/ \E k \in 1..3 : t.position_indices[k] < 0
    \/ IsSome(t.tex_coords_indices) /\ \E k \in 1..3 : Unwrap(t.tex_coords_indices)[k] < 0
    \/ IsSome(t.normal_indices) /\ \E k \in 1..3 : Unwrap(t.normal_indices)[k] < 0

\* C28: a vertex reference with a position, texture or normal index of 0 never makes
\* the subtraction of 1 in parse_vertex_ref panic, and parse never returns Ok with a
\* triangle that holds a wrapped index: such a file ends in an error.
C28_ZeroIndexIsAnError ==
    /\ parse_result.tag # "Panic"
    /\ parse_result.tag = "Ok" => \A i \in 1..Len(triangles) : ~Wrapped(triangles[i])

\* The nodes an entry of todo_stack can still lead the loop to
Reach(k) == Subtree(todo_stack[k].node_index, Len(nodes))
\* The iterations of the loop that looked a node up
Iterations == node_lookups - 1

\* C29: while intersect runs, every node index on todo_stack is below nodes.len(),
\* the entries of the stack lead to disjoint parts of the tree, and the iterations
\* made so far plus the nodes still reachable from the stack never exceed
\* nodes.len(); so no node is popped twice and the loop ends after at most
\* nodes.len() iterations.
C29_IntersectTerminates ==
    /\ phase = "traverse" =>
           /\ \A k \in 1..Len(todo_stack) : todo_stack[k].node_index < Len(nodes)
           /\ \A j, k \in 1..Len(todo_stack) : j < k => Reach(j) \cap Reach(k) = {}
           /\ Iterations + Cardinality(UNION {Reach(k) : k \in 1..Len(todo_stack)})
                  <= Len(nodes)
    /\ phase = "returned" => Iterations <= Len(nodes)

\* intersect has returned from a tree of at least five nodes after looking up every
\* one of them.
C29_Witness ==
    /\ phase = "returned"
    /\ Len(nodes) >= 5
    /\ Iterations = Len(nodes)

(***************************************************************************)
(*                           Specifications                                *)
(***************************************************************************)
IdleObj ==
    /\ object_name = None /\ vertex_positions = <<>> /\ vertex_normals = <<>>
    /\ vertex_tex_coords = <<>> /\ triangles = <<>> /\ line_number = 0
    /\ line = <<>> /\ parse_result = Running /\ overflow_checks = FALSE
IdleFr == fr_in = <<>> /\ fr_out = None
IdleRd ==
    /\ scene = <<>> /\ images = <<>> /\ pc = "idle" /\ img = <<>>
    /\ x_local = 0 /\ y_local = 0 /\ samples_done = 0 /\ color_sum = Black /\ cast = None

IdleKd ==
    /\ data = <<>> /\ options = <<>> /\ bounding_box = <<>> /\ nodes = <<>>
    /\ linear_triangle_indices = <<>> /\ indices_below = <<>> /\ indices_above = <<>>
    /\ frames = <<>> /\ phase = "idle" /\ intersect_stack_capacity = 0
    /\ the_ray = <<>> /\ todo_stack = <<>> /\ nearest_hit = None
    /\ node_lookups = 0 /\ returned = None
IdleAl == instance_cell = None /\ call_log = <<>>
IdleIm ==
    /\ rgb_image = None /\ rgb_before = None /\ rgb_call = <<>> /\ rgb_puts = 0
    /\ rgb_overflow_checks = FALSE
IdleFn == fn_call = <<>> /\ fn_result = None
IdleRy == debug_datas = <<>> /\ ray_pool = <<>>

\* ObjParser::parse on its own
InitParse == InitObj /\ IdleFr /\ IdleRd /\ IdleKd /\ IdleAl /\ IdleIm /\ IdleFn /\ IdleRy
SpecObj == InitParse /\ [][NextObj]_vars

\* The refraction branch on its own
InitRefract == InitFr /\ IdleObj /\ IdleRd /\ IdleKd /\ IdleAl /\ IdleIm /\ IdleFn /\ IdleRy
SpecFresnel == InitRefract /\ [][NextFr]_vars

\* Renderer::render on its own
InitRender == InitRd /\ IdleObj /\ IdleFr /\ IdleKd /\ IdleAl /\ IdleIm /\ IdleFn /\ IdleRy
SpecRender == InitRender /\ [][NextRd]_vars

\* LinearKDTree::build and one LinearKDTree::intersect on its own
InitTree == IdleKd /\ IdleObj /\ IdleFr /\ IdleRd /\ IdleAl /\ IdleIm /\ IdleFn /\ IdleRy
SpecKD == InitTree /\ [][NextKd]_vars

\* The asset loader, called from several threads
InitLoader == IdleAl /\ IdleObj /\ IdleFr /\ IdleRd /\ IdleKd /\ IdleIm /\ IdleFn /\ IdleRy
SpecLoader == InitLoader /\ [][NextAl]_vars

\* One RgbImage: new, then put_pixel and get_pixel
InitImage == InitIm /\ IdleObj /\ IdleFr /\ IdleRd /\ IdleKd /\ IdleAl /\ IdleFn /\ IdleRy
SpecImage == InitImage /\ [][NextIm]_vars

\* One call of a function that only computes
InitCall == InitFn /\ IdleObj /\ IdleFr /\ IdleRd /\ IdleKd /\ IdleAl /\ IdleIm /\ IdleRy
SpecCall == InitCall /\ [][NextFn]_vars

\* The rays made for one image and the counters they point to
InitRays == InitRy /\ IdleObj /\ IdleFr /\ IdleRd /\ IdleKd /\ IdleAl /\ IdleIm /\ IdleFn
SpecRays == InitRays /\ [][NextRy]_vars

=============================================================================
